---------------------------- MODULE Spec2Model ----------------------------
(***************************************************************************)
(* A model of the ESP3 side of enocean2mqtt: the frame scanner of          *)
(* BaseController.read, the packet codec of enocean.protocol.packet, the   *)
(* UTE teach-in answer and the controller worker loop.                     *)
(*                                                                         *)
(* Bytes are the integers 0..255, byte strings and Python lists are        *)
(* sequences (1-based here, 0-based in the source).                        *)
(***************************************************************************)
EXTENDS Integers, Sequences, FiniteSets, TLC

VARIABLES
    wire,            \* bytes the transport will still deliver, in order
    buffer,          \* BaseController._buffer
    next_sync_byte,  \* BaseController.next_sync_byte
    crc_errors,      \* BaseController.crc_errors
    transmit,        \* BaseController.transmit (queue of packets)
    receive,         \* BaseController.receive (queue of packets)
    command_queue,   \* BaseController.command_queue
    teach_in,        \* BaseController.teach_in
    info,            \* adapter identity fields written by the response parser
    last,            \* the latest read() call: what it saw and how it ended
    prev,            \* the read() call right before it (no bytes in between)
    idle,            \* read() calls that found the frame incomplete, in a row
    probes,          \* calls of init_adapter so far
    pc,              \* where the controller worker is in run()
    stop_flag,       \* BaseController._stop_flag
    port,            \* the transport: what was written to it, errors, open
    hist,            \* what the worker took off the transmit queue so far, and
                     \* how many packets had been sent when stop() was called
    pending,         \* the queue puts a read() in progress has still to do
    got,             \* the packet the gateway took off the receive queue last
    call             \* a call of a pure function: its input and its result

ctlVars == <<wire, buffer, next_sync_byte, crc_errors, transmit, receive,
             command_queue, teach_in, info, last, prev, idle, probes>>

runVars == <<pc, stop_flag, port, hist>>

stepVars == <<pending, got>>

pureVars == <<call>>

vars == <<ctlVars, runVars, stepVars, pureVars>>

-----------------------------------------------------------------------------
(* Bounds of the model *)

\* blocks (frames, damaged frames, stray bytes) the transport delivers
MaxBlocks == 2
\* read() calls in a row that find the frame at the buffer's start incomplete
MaxIdleReads == 2
\* calls of init_adapter
MaxProbes == 1
\* The longest data of a packet that is built and parsed back
MaxDataLen == 300
\* telegrams the gateway sends
MaxSends == 2
\* bytes of a buffer whose bit ranges are written and read
MaxBufLen == 3
\* bits of the longest bit range that is written and read
MaxBits == 24

-----------------------------------------------------------------------------
(* Program constants *)

SYNC == 85
READ_SIZE == 16
RECV_SIZE == 2048
SYNC_UNTIL == 45
HEADER_CRC_INDEX == 5
FRAME_OVERHEAD == 7
NEXT_SYNC_INITIAL == 1

RADIO_ERP1 == 1
RESPONSE == 2
EVENT == 4
COMMON_COMMAND == 5

RORG_RPS == 246
RORG_BS4 == 165
RORG_BS1 == 213
RORG_VLD == 210
RORG_UTE == 212
RORG_UNDEFINED == 0

CO_RD_VERSION == 3
CO_RD_SYS_LOG == 4
CO_RD_IDBASE == 8
CO_RD_REPEATER == 10
CO_GET_FREQUENCY_INFO == 37
CO_GET_NOISETHRESHOLD == 51

\* Python's None where a list of bytes is expected, and where a string is
None == <<-1>>
Unset == "None"

-----------------------------------------------------------------------------
(* Bytes, Python slices *)

Byte == 0..255

Min(a, b) == IF a < b THEN a ELSE b
Max(a, b) == IF a > b THEN a ELSE b

\* A Python index bound (negative counts from the end), clamped to 0..len
PyBound(n, i) == IF i < 0 THEN Max(n + i, 0) ELSE Min(i, n)

\* s[lo:hi] of Python, on a sequence
PySlice(s, lo, hi) ==
    LET a == PyBound(Len(s), lo)
        b == PyBound(Len(s), hi)
    IN  IF b <= a THEN <<>> ELSE [k \in 1..(b - a) |-> s[a + k]]

\* s[lo:] of Python
PyFrom(s, lo) == PySlice(s, lo, Len(s))

\* bytearray.find(bytes([b]), start): 0-based index of the first b at or
\* after start, -1 when there is none
PyFind(s, b, start) ==
    LET at == {i \in PyBound(Len(s), start)..(Len(s) - 1) : s[i + 1] = b}
    IN  IF at = {} THEN -1 ELSE CHOOSE i \in at : \A j \in at : i <= j

-----------------------------------------------------------------------------
(* CRC-8 of ESP3: polynomial x^8 + x^2 + x + 1, initial value 0 *)

RECURSIVE XorBits(_, _, _)
XorBits(a, b, n) ==
    IF n = 0 THEN 0
    ELSE (((a % 2) + (b % 2)) % 2) + 2 * XorBits(a \div 2, b \div 2, n - 1)

XorNibble == [a \in 0..15 |-> [b \in 0..15 |-> XorBits(a, b, 4)]]

XorByte ==
    [a \in Byte |-> [b \in Byte |->
        (16 * XorNibble[a \div 16][b \div 16]) + XorNibble[a % 16][b % 16]]]

Xor(a, b) == XorByte[a][b]

\* The lookup table of the polynomial: entry c is c shifted out through
\* x^8 + x^2 + x + 1 (0-based in the source)
CRC_TABLE ==
    <<
      0, 7, 14, 9, 28, 27, 18, 21, 56, 63, 54, 49, 36, 35, 42, 45,
      112, 119, 126, 121, 108, 107, 98, 101, 72, 79, 70, 65, 84, 83, 90, 93,
      224, 231, 238, 233, 252, 251, 242, 245, 216, 223, 214, 209, 196, 195, 202, 205,
      144, 151, 158, 153, 140, 139, 130, 133, 168, 175, 166, 161, 180, 179, 186, 189,
      199, 192, 201, 206, 219, 220, 213, 210, 255, 248, 241, 246, 227, 228, 237, 234,
      183, 176, 185, 190, 171, 172, 165, 162, 143, 136, 129, 134, 147, 148, 157, 154,
      39, 32, 41, 46, 59, 60, 53, 50, 31, 24, 17, 22, 3, 4, 13, 10,
      87, 80, 89, 94, 75, 76, 69, 66, 111, 104, 97, 102, 115, 116, 125, 122,
      137, 142, 135, 128, 149, 146, 155, 156, 177, 182, 191, 184, 173, 170, 163, 164,
      249, 254, 247, 240, 229, 226, 235, 236, 193, 198, 207, 200, 221, 218, 211, 212,
      105, 110, 103, 96, 117, 114, 123, 124, 81, 86, 95, 88, 77, 74, 67, 68,
      25, 30, 23, 16, 5, 2, 11, 12, 33, 38, 47, 40, 61, 58, 51, 52,
      78, 73, 64, 71, 82, 85, 92, 91, 118, 113, 120, 127, 106, 109, 100, 99,
      62, 57, 48, 55, 34, 37, 44, 43, 6, 1, 8, 15, 26, 29, 20, 19,
      174, 169, 160, 167, 178, 181, 188, 187, 150, 145, 152, 159, 138, 141, 132, 131,
      222, 217, 208, 215, 194, 197, 204, 203, 230, 225, 232, 239, 250, 253, 244, 243
    >>

\* The fold of calc over msg[lo..hi], byte by byte from checksum 0:
\* checksum = CRC_TABLE[checksum ^ byte]
RECURSIVE CrcFold(_, _, _)
CrcFold(msg, lo, hi) ==
    IF hi < lo THEN 0
    ELSE LET checksum == CrcFold(msg, lo, hi - 1)
         IN  CRC_TABLE[Xor(checksum, msg[hi]) + 1]

\* The checksum c carried through n more zero bytes
CrcZeros[c \in Byte, n \in Nat] ==
    IF n = 0 THEN c
    ELSE IF n = 1 THEN CRC_TABLE[c + 1]
    ELSE CrcZeros[CrcZeros[c, n \div 2], n - (n \div 2)]

\* The same fold for a long run of bytes, taken by halves: the fold is linear
\* over GF(2), so the checksum of a \o b is the checksum of a carried through
\* Len(b) zero bytes, XORed with the checksum of b
RECURSIVE CrcRange(_, _, _)
CrcRange(msg, lo, hi) ==
    IF hi - lo < 8 THEN CrcFold(msg, lo, hi)
    ELSE LET mid == (lo + hi) \div 2
         IN  Xor(CrcZeros[CrcRange(msg, lo, mid), hi - mid],
                 CrcRange(msg, mid + 1, hi))

crc8_calc(msg) == CrcRange(msg, 1, Len(msg))

-----------------------------------------------------------------------------
(* Packets: enocean/protocol/packet.py *)

\* Bit n (0 = least significant) of a byte
Bit(b, n) == (b \div (2 ^ n)) % 2

\* What a constructor or a call gives: a value, or the exception it raises
Ok(v) == [raised |-> "none", value |-> v]
Raise(e) == [raised |-> e, value |-> None]

\* Packet.__init__ before self.parse(): the attributes every packet has
BasePacket(cls, packet_type, data, optional) ==
    [cls |-> cls, packet_type |-> packet_type, data |-> data,
     optional |-> optional, rorg |-> RORG_UNDEFINED, status |-> 0,
     sender |-> <<255, 255, 255, 255>>, destination |-> <<255, 255, 255, 255>>,
     dBm |-> 0, learn |-> TRUE, request_type |-> 2,
     response |-> 0, response_data |-> <<>>, direction |-> Unset]

\* Packet.parse: the status byte, by RORG
PacketParse(p) ==
    IF p.rorg \in {RORG_RPS, RORG_BS1, RORG_BS4}
    THEN IF p.data = <<>> THEN Raise("IndexError")
         ELSE Ok([p EXCEPT !.status = p.data[Len(p.data)]])
    ELSE IF p.rorg = RORG_VLD
    THEN IF p.optional = <<>> THEN Raise("IndexError")
         ELSE Ok([p EXCEPT !.status = p.optional[Len(p.optional)]])
    ELSE Ok(p)

\* _bit_data[DB0.BIT_3]: bit 3 of the last payload byte; the bit list has
\* fewer than 4 entries when data[1:len-5] is empty
HasPayload(data) == Len(data) >= 7
LearnBitClear(data) == Bit(data[Len(data) - 5], 3) = 0

\* RadioPacket.parse
RadioParse(p) ==
    IF Len(p.optional) < 6 THEN Raise("IndexError")
    ELSE IF p.data = <<>> THEN Raise("IndexError")
    ELSE LET q == [p EXCEPT !.destination = PySlice(p.optional, 1, 5),
                            !.dBm = 0 - p.optional[6],
                            !.sender = PySlice(p.data, -5, -1),
                            !.learn = TRUE,
                            !.rorg = p.data[1]]
         IN  IF q.rorg \in {RORG_BS1, RORG_BS4}
             THEN IF ~HasPayload(q.data) THEN Raise("IndexError")
                  ELSE PacketParse([q EXCEPT !.learn = LearnBitClear(q.data)])
             ELSE PacketParse(q)

\* UTETeachInPacket.parse: DB6 is the first of the 7 payload bytes, the bit
\* list has fewer than 56 entries when data is shorter than 13 bytes
UTEParse(p) ==
    LET r == RadioParse(p)
    IN  IF r.raised # "none" THEN r
        ELSE IF Len(p.data) < 13 THEN Raise("IndexError")
        ELSE LET db6 == p.data[Len(p.data) - 11]
                 rt == (2 * Bit(db6, 5)) + Bit(db6, 4)
             IN  Ok([r.value EXCEPT !.request_type = rt, !.learn = TRUE])

\* ResponsePacket.parse
ResponseParse(p) ==
    IF p.data = <<>> THEN Raise("IndexError")
    ELSE PacketParse([p EXCEPT !.response = p.data[1],
                               !.response_data = PyFrom(p.data, 1)])

\* EventPacket.parse
EventParse(p) ==
    IF p.data = <<>> THEN Raise("IndexError")
    ELSE PacketParse(p)

\* cls(packet_type, data, optional): __init__ ends with self.parse()
NewPacket(cls, packet_type, data, optional) ==
    LET p == BasePacket(cls, packet_type, data, optional)
    IN  CASE cls = "UTETeachInPacket" -> UTEParse(p)
          [] cls = "RadioPacket" -> RadioParse(p)
          [] cls = "ResponsePacket" -> ResponseParse(p)
          [] cls = "EventPacket" -> EventParse(p)
          [] OTHER -> PacketParse(p)

\* The class parse_msg picks for a packet type and its data
Classify(packet_type, data) ==
    IF packet_type = RADIO_ERP1
    THEN IF data = <<>> THEN Raise("IndexError")
         ELSE IF data[1] = RORG_UTE THEN Ok("UTETeachInPacket")
         ELSE Ok("RadioPacket")
    ELSE IF packet_type = RESPONSE THEN Ok("ResponsePacket")
    ELSE IF packet_type = EVENT THEN Ok("EventPacket")
    ELSE Ok("Packet")

\* The typed packet of a packet type, data and optional bytes
TypedPacket(packet_type, data, optional) ==
    LET c == Classify(packet_type, data)
    IN  IF c.raised # "none" THEN c
        ELSE NewPacket(c.value, packet_type, data, optional)

\* Packet.build
build(p) ==
    LET data_length == Len(p.data)
        ords == <<SYNC, (data_length \div 256) % 256, data_length % 256,
                  Len(p.optional), p.packet_type>>
        hdr == Append(ords, crc8_calc(PySlice(ords, 1, 5)))
        body == hdr \o p.data \o p.optional
    IN  Append(body, crc8_calc(PyFrom(body, 6)))

\* Packet.parse_msg: [raised, result, remaining, packet]
ParseMsgResult(raised, result, remaining, packet) ==
    [raised |-> raised, result |-> result, remaining |-> remaining,
     packet |-> packet]

parse_msg(buf0) ==
    IF \A i \in 1..Len(buf0) : buf0[i] # SYNC
    THEN ParseMsgResult("none", "INCOMPLETE", <<>>, None)
    ELSE
    LET buf == PyFrom(buf0, PyFind(buf0, SYNC, 0))
    IN  IF Len(buf) < 4 THEN ParseMsgResult("none", "INCOMPLETE", buf, None)
        ELSE
        LET data_len == (buf[2] * 256) + buf[3]
            opt_len == buf[4]
            DATA_END == 6 + data_len
            OPT_DATA_END == DATA_END + opt_len
            MSG_LEN == OPT_DATA_END + 1
        IN  IF Len(buf) < MSG_LEN
            THEN ParseMsgResult("none", "INCOMPLETE", buf, None)
            ELSE
            LET msg == PySlice(buf, 0, MSG_LEN)
                rest == PyFrom(buf, MSG_LEN)
                packet_type == msg[5]
                data == PySlice(msg, 6, DATA_END)
                opt_data == PySlice(msg, DATA_END, OPT_DATA_END)
            IN  IF msg[6] # crc8_calc(PySlice(msg, 1, 5))
                THEN ParseMsgResult("none", "CRC_MISMATCH", rest, None)
                ELSE IF msg[OPT_DATA_END + 1] # crc8_calc(PySlice(msg, 6, OPT_DATA_END))
                THEN ParseMsgResult("none", "CRC_MISMATCH", rest, None)
                ELSE LET t == TypedPacket(packet_type, data, opt_data)
                     IN  IF t.raised # "none"
                         THEN ParseMsgResult(t.raised, None, None, None)
                         ELSE ParseMsgResult("none", "OK", rest, t.value)

\* from_bitarray: the number a list of bits spells, first bit highest
RECURSIVE from_bitarray(_)
from_bitarray(bits) ==
    IF bits = <<>> THEN 0
    ELSE (2 * from_bitarray(SubSeq(bits, 1, Len(bits) - 1)))
         + (IF bits[Len(bits)] THEN 1 ELSE 0)

\* UTETeachInPacket: the response types, two bits each
NOT_ACCEPTED == <<FALSE, FALSE>>
TEACHIN_ACCEPTED == <<FALSE, TRUE>>
DELETE_ACCEPTED == <<TRUE, FALSE>>
EEP_NOT_SUPPORTED == <<TRUE, TRUE>>

\* UTETeachInPacket.create_response_packet(sender_id, response)
\* The optional bytes, had the response gone to the request's destination
ResponseOptionalToDestination(p) == <<3>> \o p.destination \o <<255, 0>>

\* create_response_packet, line 514: sending, the requester, dBm, security
ResponseOptional(p) == <<3>> \o p.sender \o <<255, 0>>

create_response_packet(p, sender_id, response) ==
    IF sender_id = None THEN Raise("TypeError")
    ELSE LET control == from_bitarray(<<TRUE, FALSE>> \o response
                                      \o <<FALSE, FALSE, FALSE, TRUE>>)
             data == <<p.rorg, control>>
                     \o PySlice(p.data, 2, 8) \o sender_id \o <<0>>
             optional == ResponseOptional(p)
         IN  NewPacket("RadioPacket", RADIO_ERP1, data, optional)

-----------------------------------------------------------------------------
(* The controller: enocean/controller/basecontroller.py *)

RESPONSE_FREQUENCY_FREQUENCY ==
    [k \in {0, 1, 2, 3, 4, 32} |->
        CASE k = 0 -> "315Mhz" [] k = 1 -> "868.3Mhz" [] k = 2 -> "902.87Mhz"
          [] k = 3 -> "925Mhz" [] k = 4 -> "928Mhz" [] OTHER -> "2.4 Ghz"]

RESPONSE_FREQUENCY_PROTOCOL ==
    [k \in {0, 1, 16, 48} |->
        CASE k = 0 -> "ERP1" [] k = 1 -> "ERP2" [] k = 16 -> "802.15.4"
          [] OTHER -> "Long Range"]

RESPONSE_REPEATER_MODE ==
    [k \in {0, 1, 2} |->
        CASE k = 0 -> "OFF" [] k = 1 -> "ON" [] OTHER -> "SELECTIVE"]

RESPONSE_REPEATER_LEVEL ==
    [k \in {0, 1, 2} |->
        CASE k = 0 -> "OFF" [] k = 1 -> "1-level" [] OTHER -> "2-level"]

\* table[seq[i]] of Python: IndexError, KeyError or the value
Lookup(table, seq, i) ==
    IF Len(seq) <= i THEN Raise("IndexError")
    ELSE IF seq[i + 1] \notin DOMAIN table THEN Raise("KeyError")
    ELSE Ok(table[seq[i + 1]])

\* BaseController.__init__: the adapter identity fields
InitialInfo ==
    [chip_id |-> None, base_id |-> None, frequency |-> Unset,
     protocol |-> Unset, repeater_mode |-> Unset, repeater_level |-> Unset]

\* BaseController.address
address(inf) == inf.chip_id

\* The transmit queue, had send() put the packet in front of the others
sendFirst(tx, packet) == <<packet>> \o tx

\* BaseController.send: transmit.put(packet) on a FIFO queue
send(tx, packet) == Append(tx, packet)

\* BaseController.send_common_command: the packet put on the transmit queue
CommonCommandPacket(code) ==
    NewPacket("Packet", COMMON_COMMAND, <<code>>, <<>>).value

\* The codes init_adapter sends, in order
INIT_ADAPTER_CODES ==
    <<CO_RD_VERSION, CO_GET_FREQUENCY_INFO, CO_RD_IDBASE,
      CO_GET_NOISETHRESHOLD, CO_RD_REPEATER>>

\* What a step inside read() leaves behind: how it ended and the state
Effect(raised, cq, inf, tx, rx, routed) ==
    [raised |-> raised, command_queue |-> cq, info |-> inf,
     transmit |-> tx, receive |-> rx, routed |-> routed]

\* The pending commands, had pop() taken the newest one off
PoppedNewest(cq) == SubSeq(cq, 1, Len(cq) - 1)

\* parse_common_command_response, line 229: what command_queue.pop(0) leaves
Popped(cq) == Tail(cq)

\* The base id, had it been taken from the data with its return code
BaseIdFromData(packet) == packet.data

\* parse_common_command_response, line 245
BaseIdFrom(packet) == packet.response_data

\* BaseController.parse_common_command_response
parse_common_command_response(packet, cq, inf, tx, rx) ==
    LET command_id == Head(cq)
        rest == Popped(cq)
        rd == packet.response_data
    IN  CASE command_id = CO_RD_VERSION ->
               Effect("none", rest, [inf EXCEPT !.chip_id = PySlice(rd, 8, 12)],
                      tx, rx, "response")
          [] command_id = CO_RD_IDBASE ->
               LET inf2 == [inf EXCEPT !.base_id = BaseIdFrom(packet)]
               IN  IF packet.optional = <<>>
                   THEN Effect("IndexError", rest, inf2, tx, rx, "response")
                   ELSE Effect("none", rest, inf2, tx, rx, "response")
          [] command_id = CO_GET_FREQUENCY_INFO ->
               LET f == Lookup(RESPONSE_FREQUENCY_FREQUENCY, rd, 0)
                   pr == Lookup(RESPONSE_FREQUENCY_PROTOCOL, rd, 1)
               IN  IF f.raised # "none"
                   THEN Effect(f.raised, rest, inf, tx, rx, "response")
                   ELSE IF pr.raised # "none"
                   THEN Effect(pr.raised, rest,
                               [inf EXCEPT !.frequency = f.value],
                               tx, rx, "response")
                   ELSE Effect("none", rest,
                               [inf EXCEPT !.frequency = f.value,
                                           !.protocol = pr.value],
                               tx, rx, "response")
          [] command_id = CO_RD_REPEATER ->
               LET m == Lookup(RESPONSE_REPEATER_MODE, rd, 0)
                   l == Lookup(RESPONSE_REPEATER_LEVEL, rd, 1)
               IN  IF m.raised # "none"
                   THEN Effect(m.raised, rest, inf, tx, rx, "response")
                   ELSE IF l.raised # "none"
                   THEN Effect(l.raised, rest,
                               [inf EXCEPT !.repeater_mode = m.value],
                               tx, rx, "response")
                   ELSE Effect("none", rest,
                               [inf EXCEPT !.repeater_mode = m.value,
                                           !.repeater_level = l.value],
                               tx, rx, "response")
          [] OTHER -> Effect("none", rest, inf, tx, rx, "response")

\* The UTE branch, had it not looked at the teach_in flag
AnswersWhateverFlag(tin, own, packet) == own # packet.destination

\* read(), the UTE branch: whether a teach-in request is answered
AnswersTeachIn(tin, own, packet) == tin /\ own # packet.destination

\* read(), lines 128-165: what is done with a parsed packet
Dispatch(packet, tin, cq, inf, tx, rx) ==
    IF packet.packet_type = RADIO_ERP1
    THEN LET direction == IF packet.sender = address(inf) THEN "TO" ELSE "FROM"
             p == [packet EXCEPT !.direction = direction]
         IN  IF p.rorg = RORG_UTE /\ AnswersTeachIn(tin, address(inf), p)
             THEN LET resp == create_response_packet(p, address(inf),
                                                     TEACHIN_ACCEPTED)
                  IN  IF resp.raised # "none"
                      THEN Effect(resp.raised, cq, inf, tx, rx, "none")
                      ELSE Effect("none", cq, inf, send(tx, resp.value),
                                  Append(rx, p), "receive")
             ELSE Effect("none", cq, inf, tx, Append(rx, p), "receive")
    ELSE IF packet.packet_type = RESPONSE /\ cq # <<>>
    THEN parse_common_command_response(packet, cq, inf, tx, rx)
    ELSE IF packet.packet_type = EVENT
    THEN Effect("none", cq, inf, tx, rx, "event")
    ELSE Effect("none", cq, inf, tx, rx, "none")

\* Packet.parse_frame(frame): the body CRC, then the typed packet
parse_frame(frame) ==
    LET data_len == (frame[2] * 256) + frame[3]
        opt_len == frame[4]
        data == PySlice(frame, 6, 6 + data_len)
        optional == PySlice(frame, 6 + data_len, 6 + data_len + opt_len)
    IN  IF frame[Len(frame)] # crc8_calc(PySlice(frame, 6, -1))
        THEN Raise("CrcMismatchError")
        ELSE TypedPacket(frame[5], data, optional)

\* The search for the sync byte, had it started at the first byte
FindSyncFromStart(buf, start) == PyFind(buf, SYNC, 0)

\* read(), line 93: the next sync byte
FindSync(buf, start) == PyFind(buf, SYNC, start)

\* read(), lines 94-97: the header check
HeaderCrcOk(buf) == crc8_calc(PySlice(buf, 1, 5)) = buf[HEADER_CRC_INDEX + 1]

\* The frame length, had it left out the body CRC byte
PacketLenWithoutCrc(buf) == 6 + ((buf[2] * 256) + buf[3]) + buf[4]

\* read(), lines 100-103
PacketLen(buf) == FRAME_OVERHEAD + ((buf[2] * 256) + buf[3]) + buf[4]

\* read(), line 122: the bytes kept after a header CRC mismatch
Discard(buf, sync_byte_index) == PyFrom(buf, sync_byte_index)

\* read(), line 108
IncompleteSync(nsb, packet_len) == nsb + packet_len

\* The exception that leaves read(), had it let every exception through
ReraisedAsRaised(e) == e

\* read(), lines 166-167: the exception that leaves read() for one raised
\* inside its try block
Reraised(e) ==
    IF e \in {"ValueError", "IndexError"} THEN "FrameIncompleteError" ELSE e

\* The CRC error counter, had a mismatch not been counted
CountCrcErrorNot(n) == n

\* read(), lines 168-169
CountCrcError(n) == n + 1

\* One call of read(): how it ended, the frame it cut out, and the state
ReadResult(raised, stage, frame, buf, nsb, crc, eff) ==
    [raised |-> raised, stage |-> stage, frame |-> frame, buffer |-> buf,
     next_sync_byte |-> nsb, crc_errors |-> crc,
     command_queue |-> eff.command_queue, info |-> eff.info,
     transmit |-> eff.transmit, receive |-> eff.receive,
     routed |-> eff.routed]

read(buf, nsb, crc, tin, cq, inf, tx, rx) ==
    LET same == Effect("none", cq, inf, tx, rx, "none")
        sync_byte_index == FindSync(buf, nsb)
    IN  IF Len(buf) <= HEADER_CRC_INDEX
        THEN ReadResult(Reraised("IndexError"), "header", <<>>, buf, nsb, crc, same)
        ELSE IF ~HeaderCrcOk(buf)
        THEN ReadResult("none", "header_crc", <<>>,
                        Discard(buf, sync_byte_index), nsb,
                        CountCrcError(crc), same)
        ELSE
        LET packet_len == PacketLen(buf)
        IN  IF packet_len > Len(buf)
            THEN ReadResult("FrameIncompleteError", "body", <<>>, buf,
                            IncompleteSync(nsb, packet_len), crc, same)
            ELSE
            LET frame == PySlice(buf, 0, packet_len)
                rest == PyFrom(buf, packet_len)
                parsed == parse_frame(frame)
            IN  IF parsed.raised = "CrcMismatchError"
                THEN ReadResult("none", "body_crc", frame, rest,
                                NEXT_SYNC_INITIAL, CountCrcError(crc), same)
                ELSE IF parsed.raised # "none"
                THEN ReadResult(Reraised(parsed.raised), "parse", frame, rest,
                                NEXT_SYNC_INITIAL, crc, same)
                ELSE
                LET eff == Dispatch(parsed.value, tin, cq, inf, tx, rx)
                IN  ReadResult(Reraised(eff.raised), "packet", frame, rest,
                               NEXT_SYNC_INITIAL, crc,
                               [eff EXCEPT !.raised = "none"])

-----------------------------------------------------------------------------
(* What the transport delivers *)

\* A frame with its last byte (the body CRC) damaged
BadBody(frame) ==
    [frame EXCEPT ![Len(frame)] = Xor(frame[Len(frame)], 1)]

\* A frame with its header CRC damaged
BadHeader(frame) ==
    [frame EXCEPT ![HEADER_CRC_INDEX + 1] = Xor(frame[HEADER_CRC_INDEX + 1], 1)]

\* The frame of a packet type, data and optional bytes
FrameOf(packet_type, data, optional) ==
    build(BasePacket("Packet", packet_type, data, optional))

GENERIC_FRAME == FrameOf(COMMON_COMMAND, <<>>, <<>>)
EVENT_FRAME == FrameOf(EVENT, <<4>>, <<>>)
RESPONSE_FRAME == FrameOf(RESPONSE, <<0>>, <<>>)
RPS_FRAME ==
    FrameOf(RADIO_ERP1, <<RORG_RPS, 112, 0, 41, 137, 121, 48>>,
            <<1, 255, 255, 255, 255, 45, 0>>)

\* A frame that announces 7 data bytes, with a whole frame as its data and
\* its own body CRC still to come
WRAPPED_FRAME ==
    PySlice(FrameOf(COMMON_COMMAND, GENERIC_FRAME, <<>>), 0, -1)

\* A frame whose sync byte arrived as another byte
NoSync(frame) == [frame EXCEPT ![1] = 0]

ScanBlocks ==
    {GENERIC_FRAME, EVENT_FRAME, BadHeader(GENERIC_FRAME), BadBody(EVENT_FRAME),
     WRAPPED_FRAME, NoSync(GENERIC_FRAME), <<0>>}

\* Every concatenation of at most n blocks
RECURSIVE Streams(_, _)
Streams(blocks, n) ==
    IF n = 0 THEN {<<>>}
    ELSE LET shorter == Streams(blocks, n - 1)
         IN  shorter \cup {b \o w : b \in blocks, w \in shorter}

-----------------------------------------------------------------------------
(* The scanner: bytes arrive, read() is called *)

NoCall ==
    [called |-> FALSE, raised |-> "none", stage |-> "none", frame |-> <<>>,
     routed |-> "none", buffer |-> <<>>, next_sync_byte |-> 0,
     crc_errors |-> 0, receive |-> <<>>, transmit |-> <<>>,
     command_queue |-> <<>>, teach_in |-> FALSE, info |-> InitialInfo,
     idle |-> 0]

\* The record of a read() call: its outcome and the state it started from
Call(r) ==
    [called |-> TRUE, raised |-> r.raised, stage |-> r.stage,
     frame |-> r.frame, routed |-> r.routed, buffer |-> buffer,
     next_sync_byte |-> next_sync_byte, crc_errors |-> crc_errors,
     receive |-> receive, transmit |-> transmit,
     command_queue |-> command_queue, teach_in |-> teach_in, info |-> info,
     idle |-> idle]

\* BaseController.__init__
InitController(tin) ==
    /\ buffer = <<>>
    /\ next_sync_byte = NEXT_SYNC_INITIAL
    /\ crc_errors = 0
    /\ transmit = <<>>
    /\ receive = <<>>
    /\ command_queue = <<>>
    /\ teach_in = tin
    /\ info = InitialInfo
    /\ last = NoCall
    /\ prev = NoCall
    /\ idle = 0
    /\ probes = 0
    /\ pending = <<>>
    /\ got = None

\* No pure function is called
NoPureCall == /\ call = [op |-> "none"]

\* The worker thread is not started
InitialPort == [written |-> <<>>, io_error |-> FALSE, open |-> TRUE]

\* Nothing was taken off the transmit queue, stop() was not called, the
\* gateway has sent nothing, the adapter has answered nothing
NoHistory == [taken |-> <<>>, at_stop |-> -1, sends |-> 0, answered |-> 0]

NoWorker ==
    /\ pc = "idle"
    /\ stop_flag = FALSE
    /\ port = InitialPort
    /\ hist = NoHistory

Init ==
    /\ wire \in Streams(ScanBlocks, MaxBlocks)
    /\ InitController(TRUE)
    /\ NoWorker
    /\ NoPureCall

\* The transport hands over bytes, appended to the buffer. A read of up to
\* READ_SIZE bytes that returns n of them is n of these steps in a row.
Receive ==
    /\ wire # <<>>
    /\ buffer' = Append(buffer, Head(wire))
    /\ wire' = Tail(wire)
    /\ last' = NoCall
    /\ prev' = NoCall
    /\ UNCHANGED <<next_sync_byte, crc_errors, transmit, receive,
                   command_queue, teach_in, info, idle, probes, runVars, pureVars,
                   stepVars>>

\* A read() that finds its frame incomplete and leaves the buffer alone
Fruitless(r) == r.raised = "FrameIncompleteError" /\ r.frame = <<>>

\* One call of read()
Read ==
    \E r \in {read(buffer, next_sync_byte, crc_errors, teach_in,
                   command_queue, info, transmit, receive)} :
        /\ Fruitless(r) => idle < MaxIdleReads
        /\ buffer' = r.buffer
        /\ next_sync_byte' = r.next_sync_byte
        /\ crc_errors' = r.crc_errors
        /\ transmit' = r.transmit
        /\ receive' = r.receive
        /\ command_queue' = r.command_queue
        /\ info' = r.info
        /\ last' = Call(r)
        /\ prev' = last
        /\ idle' = IF Fruitless(r) THEN idle + 1 ELSE 0
        /\ UNCHANGED <<wire, teach_in, probes, runVars, pureVars,
                   stepVars>>

\* send() for each packet of a sequence
RECURSIVE SendAll(_, _)
SendAll(tx, packets) ==
    IF packets = <<>> THEN tx
    ELSE SendAll(send(tx, Head(packets)), Tail(packets))

\* A sequence, last element first
Reverse(seq) == [k \in 1..Len(seq) |-> seq[Len(seq) + 1 - k]]

\* send_common_command, had it put each code in front of the pending ones
SendCommonCommandsNewestFirst(codes) ==
    /\ transmit' = SendAll(transmit,
                           [k \in 1..Len(codes) |-> CommonCommandPacket(codes[k])])
    /\ command_queue' = Reverse(codes) \o command_queue

\* BaseController.send_common_command, for each code of a sequence
SendCommonCommands(codes) ==
    /\ transmit' = SendAll(transmit,
                           [k \in 1..Len(codes) |-> CommonCommandPacket(codes[k])])
    /\ command_queue' = command_queue \o codes

\* BaseController.init_adapter
InitAdapter ==
    /\ probes < MaxProbes
    /\ probes' = probes + 1
    /\ SendCommonCommands(INIT_ADAPTER_CODES)
    /\ last' = NoCall
    /\ prev' = NoCall
    /\ UNCHANGED <<wire, buffer, next_sync_byte, crc_errors, receive,
                   teach_in, info, idle, runVars, pureVars,
                   stepVars>>

Next == Receive \/ Read

Spec == Init /\ [][Next]_vars

-----------------------------------------------------------------------------
(* The controller with its adapter: commands, responses, teach-in *)

\* The chip id the adapter reports, and the address of a sensor
CHIP_ID == <<222, 173, 190, 239>>
SENSOR_ID == <<5, 16, 32, 48>>
BROADCAST == <<255, 255, 255, 255>>

\* The answer to CO_RD_VERSION: return code, application version, API
\* version, chip id, chip version, description
VERSION_RESPONSE ==
    FrameOf(RESPONSE,
            <<0>> \o <<2, 11, 1, 0>> \o <<2, 6, 3, 0>> \o CHIP_ID
                  \o <<69, 79, 1, 3>> \o [k \in 1..16 |-> IF k = 1 THEN 71 ELSE 0],
            <<>>)

\* A UTE teach-in request of a sensor, to a destination
UteRequest(destination) ==
    FrameOf(RADIO_ERP1,
            <<RORG_UTE, 160, 255, 1, 22, 5, 2, 165>> \o SENSOR_ID \o <<0>>,
            <<1>> \o destination \o <<45, 0>>)

UTE_REQUEST == UteRequest(BROADCAST)
UTE_ECHO == UteRequest(CHIP_ID)

CtlBlocks ==
    {VERSION_RESPONSE, BadBody(VERSION_RESPONSE), UTE_REQUEST, UTE_ECHO,
     BadBody(UTE_REQUEST), RPS_FRAME, RESPONSE_FRAME}

InitCtl ==
    /\ wire \in Streams(CtlBlocks, MaxBlocks)
    /\ \E tin \in BOOLEAN : InitController(tin)
    /\ NoWorker
    /\ NoPureCall

\* A TCP client hands over what it has sent: client.recv(RECV_SIZE)
ReceiveChunk ==
    LET n == Min(RECV_SIZE, Len(wire))
    IN  /\ wire # <<>>
        /\ buffer' = buffer \o SubSeq(wire, 1, n)
        /\ wire' = SubSeq(wire, n + 1, Len(wire))
        /\ last' = NoCall
        /\ prev' = NoCall
        /\ UNCHANGED <<next_sync_byte, crc_errors, transmit, receive,
                       command_queue, teach_in, info, idle, probes,
                       runVars, pureVars,
                   stepVars>>

\* Gateway.handle_learn_activation_request: "ON" and "OFF" set the flag
SetTeachIn(command) ==
    /\ teach_in # (command = "ON")
    /\ teach_in' = (command = "ON")
    /\ UNCHANGED <<wire, buffer, next_sync_byte, crc_errors, transmit, receive,
                   command_queue, info, last, prev, idle, probes,
                   runVars, pureVars,
                   stepVars>>

NextCtl ==
    \/ ReceiveChunk
    \/ Read
    \/ InitAdapter
    \/ \E command \in {"ON", "OFF"} : SetTeachIn(command)

SpecCtl == InitCtl /\ [][NextCtl]_vars

-----------------------------------------------------------------------------
(* Common commands and the responses of the adapter *)

BASE_ID == <<255, 198, 234, 0>>

\* The answers of the adapter: to CO_GET_FREQUENCY_INFO (868.3 MHz, ERP1), to
\* CO_RD_IDBASE with the remaining write cycles as the optional byte and with
\* the remaining write cycles as a sixth data byte, to CO_RD_REPEATER
FREQUENCY_INFO_RESPONSE == FrameOf(RESPONSE, <<0, 1, 0>>, <<>>)
IDBASE_RESPONSE == FrameOf(RESPONSE, <<0>> \o BASE_ID, <<10>>)
IDBASE_LONG_RESPONSE == FrameOf(RESPONSE, <<0>> \o BASE_ID \o <<10>>, <<>>)
REPEATER_RESPONSE == FrameOf(RESPONSE, <<0, 1, 1>>, <<>>)

CmdBlocks ==
    {VERSION_RESPONSE, FREQUENCY_INFO_RESPONSE, IDBASE_RESPONSE,
     IDBASE_LONG_RESPONSE, REPEATER_RESPONSE, RESPONSE_FRAME, RPS_FRAME}

\* What Python takes for true of a list
Truthy(list) == list # None /\ list # <<>>

\* BaseController.base_id, the getter: a thread asks for the base id; when it
\* is not set, CO_RD_IDBASE is sent and the thread waits for it
BaseId ==
    /\ call.op = "none"
    /\ ~Truthy(info.base_id)
    /\ call' = [op |-> "base_id"]
    /\ SendCommonCommands(<<CO_RD_IDBASE>>)
    /\ last' = NoCall
    /\ prev' = NoCall
    /\ UNCHANGED <<wire, buffer, next_sync_byte, crc_errors, receive,
                   teach_in, info, idle, probes, runVars, stepVars>>

\* The getter returns once the base id is set
BaseIdReturn ==
    /\ call.op = "base_id"
    /\ Truthy(info.base_id)
    /\ call' = [op |-> "none"]
    /\ UNCHANGED <<ctlVars, runVars, stepVars>>

InitCmd ==
    /\ wire \in Streams(CmdBlocks, MaxBlocks)
    /\ InitController(FALSE)
    /\ NoWorker
    /\ NoPureCall

NextCmd ==
    \/ ReceiveChunk
    \/ Read
    \/ InitAdapter
    \/ BaseId
    \/ BaseIdReturn

SpecCmd == InitCmd /\ [][NextCmd]_vars

-----------------------------------------------------------------------------
(* read() seen by the other threads: its queue puts one at a time *)

\* The two puts, had the packet been handed to the consumer first
QueuePutsSwapped == <<"receive", "transmit">>

\* read(), lines 148 and 161: send(response_packet) comes before
\* receive.put(packet)
QueuePuts == <<"transmit", "receive">>

\* A put on one of the two queues
QueuePut(queue, packet) == [queue |-> queue, packet |-> packet]

\* The puts a read() call does, in program order, for its result r and the
\* queues tx and rx it started from
Puts(r, tx, rx) ==
    LET one(q) ==
            IF q = "transmit"
            THEN IF r.transmit = tx THEN <<>>
                 ELSE <<QueuePut(q, r.transmit[Len(r.transmit)])>>
            ELSE IF r.receive = rx THEN <<>>
                 ELSE <<QueuePut(q, r.receive[Len(r.receive)])>>
    IN  one(QueuePuts[1]) \o one(QueuePuts[2])

\* read() up to its first queue put: the scanner state, the pending commands
\* and the adapter fields are the worker's own
ReadBegin ==
    /\ pending = <<>>
    /\ \E r \in {read(buffer, next_sync_byte, crc_errors, teach_in,
                      command_queue, info, transmit, receive)} :
          /\ Fruitless(r) => idle < MaxIdleReads
          /\ buffer' = r.buffer
          /\ next_sync_byte' = r.next_sync_byte
          /\ crc_errors' = r.crc_errors
          /\ command_queue' = r.command_queue
          /\ info' = r.info
          /\ last' = Call(r)
          /\ prev' = last
          /\ idle' = IF Fruitless(r) THEN idle + 1 ELSE 0
          /\ pending' = Puts(r, transmit, receive)
    /\ UNCHANGED <<wire, transmit, receive, teach_in, probes, got, runVars,
                   pureVars>>

\* The next queue put of the read() in progress
Put ==
    /\ pending # <<>>
    /\ pending' = Tail(pending)
    /\ IF Head(pending).queue = "transmit"
       THEN /\ transmit' = send(transmit, Head(pending).packet)
            /\ receive' = receive
       ELSE /\ receive' = Append(receive, Head(pending).packet)
            /\ transmit' = transmit
    /\ UNCHANGED <<wire, buffer, next_sync_byte, crc_errors, command_queue,
                   teach_in, info, last, prev, idle, probes, got, runVars,
                   pureVars>>

\* Gateway.run: receive.get() hands the oldest packet to the gateway
Consume ==
    /\ receive # <<>>
    /\ got' = Head(receive)
    /\ receive' = Tail(receive)
    /\ UNCHANGED <<wire, buffer, next_sync_byte, crc_errors, transmit,
                   command_queue, teach_in, info, last, prev, idle, probes,
                   pending, runVars, pureVars>>

PutBlocks == {VERSION_RESPONSE, UTE_REQUEST, UTE_ECHO, RPS_FRAME}

InitPut ==
    /\ wire \in Streams(PutBlocks, MaxBlocks)
    /\ \E tin \in BOOLEAN : InitController(tin)
    /\ NoWorker
    /\ NoPureCall

NextPut ==
    \/ ReceiveChunk
    \/ ReadBegin
    \/ Put
    \/ Consume
    \/ InitAdapter
    \/ \E command \in {"ON", "OFF"} : SetTeachIn(command)

SpecPut == InitPut /\ [][NextPut]_vars

-----------------------------------------------------------------------------
(* The worker thread: SerialController.run *)

\* The answer to CO_GET_FREQUENCY_INFO of an adapter whose frequency code is
\* not in the table
FREQUENCY_RESPONSE == FrameOf(RESPONSE, <<0, 9, 0>>, <<>>)

RunBlocks ==
    {VERSION_RESPONSE, FREQUENCY_RESPONSE, RESPONSE_FRAME, UTE_REQUEST,
     GENERIC_FRAME}

\* start(): the thread is at the first line of run()
InitRun ==
    /\ wire \in Streams(RunBlocks, MaxBlocks)
    /\ \E tin \in BOOLEAN : InitController(tin)
    /\ pc = "read_until"
    /\ stop_flag = FALSE
    /\ port = InitialPort
    /\ hist = NoHistory
    /\ NoPureCall

\* How many bytes read_until takes: through the first SYNC_UNTIL byte, or
\* all there is
UntilLen(w) ==
    IF \E i \in 1..Len(w) : w[i] = SYNC_UNTIL
    THEN PyFind(w, SYNC_UNTIL, 0) + 1
    ELSE Len(w)

\* run(), line 25: read_until(b"\55") with the bytes that have arrived by
\* then, none of them or all of them; what it reads is thrown away. It is
\* outside every try: a SerialException here leaves run().
ReadUntil ==
    /\ pc = "read_until"
    /\ \/ /\ \E n \in {0, UntilLen(wire)} :
                wire' = SubSeq(wire, n + 1, Len(wire))
          /\ pc' = "while"
          /\ port' = port
       \/ /\ port' = [port EXCEPT !.io_error = TRUE]
          /\ pc' = "crashed"
          /\ wire' = wire
    /\ UNCHANGED <<buffer, next_sync_byte, crc_errors, transmit, receive,
                   command_queue, teach_in, info, last, prev, idle, probes,
                   stop_flag, hist, pureVars, stepVars>>

\* run(), lines 26 and 52: the loop test, and close() after the loop
LoopTest ==
    /\ pc = "while"
    /\ IF stop_flag
       THEN /\ pc' = "closed"
            /\ port' = [port EXCEPT !.open = FALSE]
       ELSE /\ pc' = "send"
            /\ port' = port
    /\ UNCHANGED <<ctlVars, stop_flag, hist, pureVars, stepVars>>

\* _get_from_send_queue: the oldest packet of the transmit queue, taken
\* without waiting, and what stays on the queue
FromSendQueue(tx) == Head(tx)
RestOfSendQueue(tx) == Tail(tx)

\* A packet the worker took off the transmit queue, and whether its write
\* went through
Taken(packet, written) == [packet |-> packet, written |-> written]

\* run(), lines 29-36: one turn of the send loop; the write succeeds or
\* raises SerialException
SendLoop ==
    /\ pc = "send"
    /\ IF transmit = <<>>
       THEN /\ pc' = "read"
            /\ UNCHANGED <<transmit, stop_flag, port, hist>>
       ELSE /\ pc' = "send"
            /\ transmit' = RestOfSendQueue(transmit)
            /\ \/ /\ port' = [port EXCEPT
                          !.written = Append(@, build(FromSendQueue(transmit)))]
                  /\ hist' = [hist EXCEPT
                          !.taken = Append(@, Taken(FromSendQueue(transmit), TRUE))]
                  /\ stop_flag' = stop_flag
               \/ /\ port' = [port EXCEPT !.io_error = TRUE]
                  /\ hist' = [hist EXCEPT
                          !.taken = Append(@, Taken(FromSendQueue(transmit), FALSE))]
                  /\ stop_flag' = TRUE
    /\ UNCHANGED <<wire, buffer, next_sync_byte, crc_errors, receive,
                   command_queue, teach_in, info, last, prev, idle, probes,
                   pureVars, stepVars>>

\* run(), lines 39-45: read(READ_SIZE) gives the bytes that arrived, none at
\* the timeout when none is left, or raises SerialException
PortRead ==
    /\ pc = "read"
    /\ pc' = "parse"
    /\ \/ /\ wire # <<>>
          /\ LET n == Min(READ_SIZE, Len(wire))
             IN  /\ buffer' = buffer \o SubSeq(wire, 1, n)
                 /\ wire' = SubSeq(wire, n + 1, Len(wire))
          /\ UNCHANGED <<idle, stop_flag, port>>
       \/ /\ wire = <<>>
          /\ idle < MaxIdleReads
          /\ idle' = idle + 1
          /\ UNCHANGED <<wire, buffer, stop_flag, port>>
       \/ /\ port' = [port EXCEPT !.io_error = TRUE]
          /\ stop_flag' = TRUE
          /\ UNCHANGED <<wire, buffer, idle>>
    /\ UNCHANGED <<next_sync_byte, crc_errors, transmit, receive,
                   command_queue, teach_in, info, last, prev, probes,
                   hist, pureVars, stepVars>>

\* run(), line 47: parse() calls read() until it signals FrameIncomplete;
\* this is one of its read() calls. Any other exception leaves parse() and
\* run(), and ends the thread.
Parse ==
    /\ pc = "parse"
    /\ \E r \in {read(buffer, next_sync_byte, crc_errors, teach_in,
                      command_queue, info, transmit, receive)} :
          /\ buffer' = r.buffer
          /\ next_sync_byte' = r.next_sync_byte
          /\ crc_errors' = r.crc_errors
          /\ transmit' = r.transmit
          /\ receive' = r.receive
          /\ command_queue' = r.command_queue
          /\ info' = r.info
          /\ last' = Call(r)
          /\ prev' = last
          /\ pc' = CASE r.raised = "none" -> "parse"
                     [] r.raised = "FrameIncompleteError" -> "while"
                     [] OTHER -> "crashed"
    /\ UNCHANGED <<wire, teach_in, idle, probes, stop_flag, port, hist,
                   pureVars, stepVars>>

\* Every packet put on the transmit queue so far: those the worker took,
\* then those still waiting
Sent == [k \in 1..Len(hist.taken) |-> hist.taken[k].packet] \o transmit

\* BaseController.stop, called by the gateway
Stop ==
    /\ ~stop_flag
    /\ pc \notin {"closed", "crashed"}
    /\ stop_flag' = TRUE
    /\ hist' = [hist EXCEPT !.at_stop = Len(Sent)]
    /\ UNCHANGED <<ctlVars, pc, port, pureVars, stepVars>>

NextRun ==
    \/ ReadUntil
    \/ LoopTest
    \/ SendLoop
    \/ PortRead
    \/ Parse
    \/ Stop
    \/ InitAdapter

SpecRun == InitRun /\ [][NextRun]_vars

-----------------------------------------------------------------------------
(* The gateway sends telegrams *)

\* The k-th telegram of the gateway: an RPS telegram to a sensor
GatewayPacket(k) ==
    NewPacket("RadioPacket", RADIO_ERP1,
              <<RORG_RPS, 16 * k>> \o BASE_ID \o <<48>>,
              <<3>> \o SENSOR_ID \o <<255, 0>>).value

\* Gateway._send_packet, line 596: controller.send(packet), from the MQTT
\* callback thread
Send ==
    /\ hist.sends < MaxSends
    /\ hist' = [hist EXCEPT !.sends = @ + 1]
    /\ transmit' = send(transmit, GatewayPacket(hist.sends + 1))
    /\ UNCHANGED <<wire, buffer, next_sync_byte, crc_errors, receive,
                   command_queue, teach_in, info, last, prev, idle, probes,
                   pc, stop_flag, port, stepVars, pureVars>>

-----------------------------------------------------------------------------
(* The serial worker and the producers of the transmit queue *)

\* What the adapter sends while the gateway is at work: the answers to the
\* common commands, and the teach-in request of a sensor, which the
\* controller answers itself
SendStreams ==
    {VERSION_RESPONSE \o FREQUENCY_INFO_RESPONSE \o UTE_REQUEST,
     VERSION_RESPONSE \o UTE_REQUEST}

\* An attribute that a response has filled in
Known(v) == v # Unset

\* BaseController.controller_info_details, lines 198-202: a thread asks for
\* the details; when they are not known, CO_RD_VERSION is sent and the thread
\* waits for the chip id
ControllerInfoDetails ==
    /\ call.op = "none"
    /\ ~(Truthy(info.chip_id) /\ Known(info.frequency))
    /\ call' = [op |-> "controller_info_details", waits |-> "chip_id"]
    /\ SendCommonCommands(<<CO_RD_VERSION>>)
    /\ last' = NoCall
    /\ prev' = NoCall
    /\ UNCHANGED <<wire, buffer, next_sync_byte, crc_errors, receive,
                   teach_in, info, idle, probes, runVars, stepVars>>

\* controller_info_details, lines 203-205: the chip id is there,
\* CO_GET_FREQUENCY_INFO is sent and the thread waits for the frequency
ControllerInfoFrequency ==
    /\ call.op = "controller_info_details"
    /\ call.waits = "chip_id"
    /\ Truthy(info.chip_id)
    /\ call' = [op |-> "controller_info_details", waits |-> "frequency"]
    /\ SendCommonCommands(<<CO_GET_FREQUENCY_INFO>>)
    /\ last' = NoCall
    /\ prev' = NoCall
    /\ UNCHANGED <<wire, buffer, next_sync_byte, crc_errors, receive,
                   teach_in, info, idle, probes, runVars, stepVars>>

\* controller_info_details, lines 206-208: the getter returns once the
\* frequency is known
ControllerInfoReturn ==
    /\ call.op = "controller_info_details"
    /\ call.waits = "frequency"
    /\ Known(info.frequency)
    /\ call' = [op |-> "none"]
    /\ UNCHANGED <<ctlVars, runVars, stepVars>>

\* start() of a controller with teach-in on
InitSend ==
    /\ wire \in SendStreams
    /\ InitController(TRUE)
    /\ pc = "read_until"
    /\ stop_flag = FALSE
    /\ port = InitialPort
    /\ hist = NoHistory
    /\ NoPureCall

\* The worker thread, and beside it a thread that asks for the details of
\* the controller and the MQTT callback thread, which sends telegrams
NextSend ==
    \/ ReadUntil
    \/ LoopTest
    \/ SendLoop
    \/ PortRead
    \/ Parse
    \/ ControllerInfoDetails
    \/ ControllerInfoFrequency
    \/ ControllerInfoReturn
    \/ Send

SpecSend == InitSend /\ [][NextSend]_vars

-----------------------------------------------------------------------------
(* The worker thread of the TCP controller: TCPControler.run *)

TcpBlocks == {GENERIC_FRAME, EVENT_FRAME, NoSync(GENERIC_FRAME)}

\* start(): the thread is at the loop test of run(), the socket listens
InitTcp ==
    /\ wire \in Streams(TcpBlocks, MaxBlocks)
    /\ InitController(TRUE)
    /\ pc = "tcp_while"
    /\ stop_flag = FALSE
    /\ port = InitialPort
    /\ hist = NoHistory
    /\ NoPureCall

\* run(), lines 25 and 43: the loop test, and sock.close() after the loop
TcpLoopTest ==
    /\ pc = "tcp_while"
    /\ IF stop_flag
       THEN /\ pc' = "closed"
            /\ port' = [port EXCEPT !.open = FALSE]
       ELSE /\ pc' = "accept"
            /\ port' = port
    /\ UNCHANGED <<ctlVars, stop_flag, hist, pureVars, stepVars>>

\* run(), lines 26-31: a client connects, or accept() times out
Accept ==
    /\ pc = "accept"
    /\ pc' \in {"recv", "tcp_while"}
    /\ UNCHANGED <<ctlVars, stop_flag, port, hist, pureVars, stepVars>>

\* run(), lines 32-39: one turn of the receive loop: the bytes the client
\* has sent, a timeout or the end of the connection, or another socket
\* error, which nothing catches
Recv ==
    /\ pc = "recv"
    /\ IF stop_flag
       THEN /\ pc' = "tcp_parse"
            /\ UNCHANGED <<wire, buffer>>
       ELSE \/ /\ wire # <<>>
               /\ LET n == Min(RECV_SIZE, Len(wire))
                  IN  /\ buffer' = buffer \o SubSeq(wire, 1, n)
                      /\ wire' = SubSeq(wire, n + 1, Len(wire))
               /\ pc' = "recv"
            \/ /\ pc' \in {"tcp_parse", "crashed"}
               /\ UNCHANGED <<wire, buffer>>
    /\ UNCHANGED <<next_sync_byte, crc_errors, transmit, receive,
                   command_queue, teach_in, info, last, prev, idle, probes,
                   stop_flag, port, hist, pureVars, stepVars>>

\* run(), lines 40-41: parse() calls read() until it signals
\* FrameIncomplete, then the client is closed; this is one of its read()
\* calls. Any other exception leaves parse() and run().
TcpParse ==
    /\ pc = "tcp_parse"
    /\ \E r \in {read(buffer, next_sync_byte, crc_errors, teach_in,
                      command_queue, info, transmit, receive)} :
          /\ buffer' = r.buffer
          /\ next_sync_byte' = r.next_sync_byte
          /\ crc_errors' = r.crc_errors
          /\ transmit' = r.transmit
          /\ receive' = r.receive
          /\ command_queue' = r.command_queue
          /\ info' = r.info
          /\ last' = Call(r)
          /\ prev' = last
          /\ pc' = CASE r.raised = "none" -> "tcp_parse"
                     [] r.raised = "FrameIncompleteError" -> "tcp_while"
                     [] OTHER -> "crashed"
    /\ UNCHANGED <<wire, teach_in, idle, probes, stop_flag, port, hist,
                   pureVars, stepVars>>

\* The steps of the worker thread
TcpWorker == TcpLoopTest \/ Accept \/ Recv \/ TcpParse

NextTcp ==
    \/ TcpLoopTest
    \/ Accept
    \/ Recv
    \/ TcpParse
    \/ Send
    \/ Stop

\* accept() and recv() return within their timeouts of 0.5 s and the thread
\* is scheduled: the worker takes a step whenever it has one
SpecTcp == InitTcp /\ [][NextTcp]_vars /\ WF_vars(TcpWorker)

-----------------------------------------------------------------------------
(* Packets taken through build() and parse_msg() *)

\* The controller is idle while a pure function is looked at
IdleController ==
    /\ wire = <<>>
    /\ InitController(TRUE)
    /\ NoWorker

RPS_DATA == <<RORG_RPS, 112, 0, 41, 137, 121, 48>>
BS4_DATA == <<RORG_BS4, 0, 0, 85, 8, 1, 129, 183, 68, 0>>
UTE_DATA == <<RORG_UTE, 160, 255, 1, 22, 5, 2, 165>> \o SENSOR_ID \o <<0>>
LONG_DATA == [k \in 1..MaxDataLen |-> IF k = 1 THEN RORG_VLD ELSE k % 256]

CodecTypes == {RADIO_ERP1, RESPONSE, EVENT, COMMON_COMMAND}
CodecData == {<<>>, <<0>>, RPS_DATA, BS4_DATA, UTE_DATA, LONG_DATA}
CodecOptional ==
    {<<>>, <<3>>, <<3>> \o BROADCAST \o <<255>>, <<1>> \o BROADCAST \o <<45, 0>>}

\* Packet(packet_type, data, optional) for the types, data and optional bytes
CodecPackets ==
    {BasePacket("Packet", t, d, o) :
        t \in CodecTypes, d \in CodecData, o \in CodecOptional}

InitCodec ==
    /\ \E p \in CodecPackets : call = [op |-> "Packet", packet |-> p]
    /\ IdleController

\* packet.build()
Build ==
    /\ call.op = "Packet"
    /\ call' = [op |-> "build", packet |-> call.packet,
                frame |-> build(call.packet)]
    /\ UNCHANGED <<ctlVars, runVars, stepVars>>

\* Packet.parse_msg(frame)
ParseMsg ==
    /\ call.op = "build"
    /\ call' = [op |-> "parse_msg", packet |-> call.packet,
                frame |-> call.frame, out |-> parse_msg(call.frame)]
    /\ UNCHANGED <<ctlVars, runVars, stepVars>>

NextCodec == Build \/ ParseMsg

SpecCodec == InitCodec /\ [][NextCodec]_vars

-----------------------------------------------------------------------------
(* UTE teach-in requests and the response built for them *)

\* Parsed UTE teach-in requests: DB6, the EEP bytes and the sender vary
UteRequests ==
    {TypedPacket(RADIO_ERP1, <<RORG_UTE, db6>> \o eep \o s \o <<0>>,
                 <<1>> \o BROADCAST \o <<45, 0>>).value :
        db6 \in {160, 32},
        eep \in {<<255, 1, 22, 5, 2, 165>>, <<1, 70, 0, 18, 1, 210>>},
        s \in {SENSOR_ID, <<1, 148, 227, 185>>}}

\* The controller address: not known yet, or four bytes
SenderIds == {None, CHIP_ID, <<255, 198, 234, 0>>, <<0, 0, 0, 0>>}

ResponseTypes ==
    {NOT_ACCEPTED, TEACHIN_ACCEPTED, DELETE_ACCEPTED, EEP_NOT_SUPPORTED}

InitUte ==
    /\ \E p \in UteRequests, a \in SenderIds, r \in ResponseTypes :
          call = [op |-> "UTETeachInPacket", packet |-> p, sender_id |-> a,
                  response |-> r]
    /\ IdleController

\* packet.create_response_packet(sender_id, response)
CreateResponse ==
    /\ call.op = "UTETeachInPacket"
    /\ call' = [op |-> "create_response_packet", packet |-> call.packet,
                sender_id |-> call.sender_id, response |-> call.response,
                out |-> create_response_packet(call.packet, call.sender_id,
                                              call.response)]
    /\ UNCHANGED <<ctlVars, runVars, stepVars>>

NextUte == CreateResponse

SpecUte == InitUte /\ [][NextUte]_vars

-----------------------------------------------------------------------------
(* Bit ranges in byte buffers: enocean/utils.py *)

\* Python's a & b and a | b for b >= 0 and, for |, a >= 0; a negative a is
\* taken in two's complement, 30 bits being more than any mask here
RECURSIVE BitAndNat(_, _)
BitAndNat(a, b) ==
    IF a = 0 \/ b = 0 THEN 0
    ELSE 2 * BitAndNat(a \div 2, b \div 2) + ((a % 2) * (b % 2))

BitAnd(a, b) == BitAndNat(a % (2 ^ 30), b)

RECURSIVE BitOr(_, _)
BitOr(a, b) ==
    IF a = 0 THEN b
    ELSE IF b = 0 THEN a
    ELSE 2 * BitOr(a \div 2, b \div 2) + Max(a % 2, b % 2)

\* a << n and a >> n
ShiftLeft(a, n) == a * (2 ^ n)
ShiftRight(a, n) == a \div (2 ^ n)

\* byte & ~mask
ClearBits(byte, mask) == byte - BitAndNat(byte, mask)

\* get_bits_from_bytearray, lines 9-13: the bytes from start_byte down to
\* end_byte; the first is taken as it is, each further one is shifted by 8
\* and or-ed to the result so far
RECURSIVE CollectBytes(_, _, _, _, _)
CollectBytes(data, i, stop, result, place) ==
    IF i <= stop THEN result
    ELSE CollectBytes(data, i - 1, stop,
                      IF place = 0 THEN data[i + 1]
                      ELSE BitOr(ShiftLeft(data[i + 1], 8), result),
                      place + 1)

\* get_bits_from_bytearray(data, start_bit, num_bits)
get_bits_from_bytearray(data, start_bit0, num_bits) ==
    LET reversed_index_bit == Len(data) * 8 - start_bit0
        start_bit == reversed_index_bit - num_bits
        start_byte == (Len(data) - 1) - (start_bit \div 8)
        end_byte == (Len(data) - 1) - ((start_bit + num_bits - 1) \div 8)
        stop == IF end_byte > 0 THEN end_byte - 1 ELSE -1
        result == CollectBytes(data, start_byte, stop, 0, 0)
        start_bit_in_byte == start_bit % 8
        mask == ShiftLeft(1, num_bits) - 1
    IN  BitAnd(ShiftRight(result, start_bit_in_byte), mask)

\* set_bits_in_bytearray, lines 63-81: the loop over the bytes of a field
\* that spans several bytes
RECURSIVE SetBitsLoop(_, _, _, _, _)
SetBitsLoop(data, value, remaining_bits, current_bit_pos, value_pos) ==
    IF remaining_bits <= 0 THEN data
    ELSE
    LET byte_index == (Len(data) - 1) - (current_bit_pos \div 8)
        bit_in_byte == current_bit_pos % 8
        bits_this_byte == Min(8 - bit_in_byte, remaining_bits)
        mask == ShiftLeft(ShiftLeft(1, bits_this_byte) - 1, bit_in_byte)
        bits_value == BitAnd(ShiftRight(value, value_pos),
                             ShiftLeft(1, bits_this_byte) - 1)
        byte == BitOr(ClearBits(data[byte_index + 1], mask),
                      BitAnd(ShiftLeft(bits_value, bit_in_byte), mask))
    IN  SetBitsLoop([data EXCEPT ![byte_index + 1] = byte], value,
                    remaining_bits - bits_this_byte,
                    current_bit_pos + bits_this_byte,
                    value_pos + bits_this_byte)

\* What set_bits_in_bytearray leaves: the buffer, changed in place, or an
\* exception
BitsResult(raised, data) == [raised |-> raised, data |-> data]

\* set_bits_in_bytearray(data, start_bit, num_bits, value)
set_bits_in_bytearray(data, start_bit, num_bits, value) ==
    LET max_value == ShiftLeft(1, num_bits) - 1
        reversed_index_bit == Len(data) * 8 - start_bit
        physical_start_bit == reversed_index_bit - num_bits
        start_byte == (Len(data) - 1) - (physical_start_bit \div 8)
        end_byte ==
            (Len(data) - 1) - ((physical_start_bit + num_bits - 1) \div 8)
        start_bit_in_byte == physical_start_bit % 8
    IN  IF value > max_value THEN BitsResult("ValueError", data)
        ELSE IF \/ start_byte < 0
                \/ end_byte < 0
                \/ start_byte >= Len(data)
                \/ end_byte >= Len(data)
        THEN BitsResult("ValueError", data)
        ELSE IF start_byte = end_byte
        THEN LET mask == ShiftLeft(ShiftLeft(1, num_bits) - 1,
                                   start_bit_in_byte)
                 byte == BitOr(ClearBits(data[start_byte + 1], mask),
                               BitAnd(ShiftLeft(value, start_bit_in_byte),
                                      mask))
             IN  BitsResult("none", [data EXCEPT ![start_byte + 1] = byte])
        ELSE BitsResult("none",
                        SetBitsLoop(data, value, num_bits,
                                    physical_start_bit, 0))

\* get_bits_from_byte(byte, offset, num_bits)
get_bits_from_byte(byte, offset, num_bits) ==
    BitAnd(ShiftRight(byte, offset), ShiftLeft(1, num_bits) - 1)

\* set_bits_to_byte(byte, offset, value, num_bits)
set_bits_to_byte(byte, offset, value, num_bits) ==
    LET mask == ShiftLeft(ShiftLeft(1, num_bits) - 1, offset)
    IN  BitOr(ClearBits(byte, mask), BitAnd(ShiftLeft(value, offset), mask))

\* Buffers of 1..MaxBufLen bytes: all bits clear, all bits set, and mixed
BitBuffers ==
    UNION {{[k \in 1..n |-> 0], [k \in 1..n |-> 255],
            [k \in 1..n |-> (165 + 37 * k) % 256]} : n \in 1..MaxBufLen}

\* The fields that fit in a buffer: start bit and number of bits
BitFields(data) ==
    {f \in (0..(8 * Len(data) - 1)) \X (1..Min(8 * Len(data), MaxBits)) :
        f[1] + f[2] <= 8 * Len(data)}

\* The values written: the smallest, the largest that fits, a mixed pattern,
\* a single high bit, and the first that does not fit
BitValues(num_bits) ==
    {0, 1, 2 ^ num_bits - 1, 2 ^ (num_bits - 1),
     (2 ^ 23 + 2 ^ 16 + 43605) % (2 ^ num_bits), 2 ^ num_bits}

InitBits ==
    /\ \E data \in BitBuffers :
          \E f \in BitFields(data) :
             \E value \in BitValues(f[2]) :
                call = [op |-> "bytearray", data |-> data, start_bit |-> f[1],
                        num_bits |-> f[2], value |-> value]
    /\ IdleController

\* set_bits_in_bytearray(data, start_bit, num_bits, value)
SetBits ==
    /\ call.op = "bytearray"
    /\ call' = [call EXCEPT !.op = "set_bits_in_bytearray"] @@
               [out |-> set_bits_in_bytearray(call.data, call.start_bit,
                                              call.num_bits, call.value)]
    /\ UNCHANGED <<ctlVars, runVars, stepVars>>

\* get_bits_from_bytearray(data, start_bit, num_bits) on the buffer written
GetBits ==
    /\ call.op = "set_bits_in_bytearray"
    /\ call.out.raised = "none"
    /\ call' = [call EXCEPT !.op = "get_bits_from_bytearray"] @@
               [read |-> get_bits_from_bytearray(call.out.data, call.start_bit,
                                                 call.num_bits)]
    /\ UNCHANGED <<ctlVars, runVars, stepVars>>

NextBits == SetBits \/ GetBits

SpecBits == InitBits /\ [][NextBits]_vars

-----------------------------------------------------------------------------
(* Numbers and values of Python, as the EEP engine uses them *)

\* A Python value: None, a bool, a str, or a number. An int or a float is
\* the fraction n/d in lowest terms; the binary rounding of a float is left
\* out, it is far below the third decimal that the engine rounds to.
PyNone == [t |-> "None"]
PyStr(s) == [t |-> "str", s |-> s]
PyBoolean(b) == [t |-> "bool", b |-> b]

Abs(a) == IF a < 0 THEN -a ELSE a

RECURSIVE GCD(_, _)
GCD(a, b) == IF b = 0 THEN a ELSE GCD(b, a % b)

\* n/d for d # 0
Rat(n, d) ==
    LET g == GCD(Abs(n), Abs(d))
        sign == IF d < 0 THEN -1 ELSE 1
    IN  [t |-> "num", n |-> sign * (n \div g), d |-> Abs(d) \div g]

Number(k) == [t |-> "num", n |-> k, d |-> 1]

RatAdd(x, y) == Rat(x.n * y.d + y.n * x.d, x.d * y.d)
RatSub(x, y) == Rat(x.n * y.d - y.n * x.d, x.d * y.d)
RatMul(x, y) == Rat(x.n * y.n, x.d * y.d)
\* x / y for y # 0
RatDiv(x, y) == Rat(x.n * y.d, x.d * y.n)

\* The integer nearest to p/q for q > 0, the even one of two that are
\* equally near
RoundHalfEven(p, q) ==
    LET floor == p \div q
        rem == p % q
    IN  IF 2 * rem < q THEN floor
        ELSE IF 2 * rem > q THEN floor + 1
        ELSE IF floor % 2 = 0 THEN floor ELSE floor + 1

\* round(x, ndigits) for ndigits = 3
Round3(x) == Rat(RoundHalfEven(x.n * 1000, x.d), 1000)

\* int(x): towards zero
PyInt(x) == IF x.n >= 0 THEN x.n \div x.d ELSE -((-x.n) \div x.d)

\* bool(v), the test of "if v:"
PyBool(v) ==
    CASE v.t = "None" -> FALSE
      [] v.t = "bool" -> v.b
      [] v.t = "str" -> v.s # ""
      [] v.t = "num" -> v.n # 0

-----------------------------------------------------------------------------
(* Decoded fields and value fields: enocean/protocol/eep.py *)

\* ProfileField(shortcut, raw_value, description, value, unit, status)
ProfileField(shortcut, raw_value, description, value, unit, status) ==
    [shortcut |-> shortcut, raw_value |-> raw_value,
     description |-> description, value_ |-> value, unit |-> unit,
     status |-> status]

\* ProfileField.value, the getter: the decoded value when it is true, the raw
\* value otherwise
FieldValue(f) == IF PyBool(f.value_) THEN f.value_ ELSE Number(f.raw_value)

\* DataValue.__init__ of
\* <value shortcut offset size unit><range>..</range><scale>..</scale></value>
DataValue(shortcut, offset, size, unit, range_min, range_max, scale_min, scale_max) ==
    [tag |-> "value", shortcut |-> shortcut, description |-> shortcut,
     offset |-> offset, size |-> size, unit |-> unit,
     range_min |-> range_min, range_max |-> range_max,
     scale_min |-> scale_min, scale_max |-> scale_max,
     multiplier |-> IF range_max = range_min THEN Number(1)
                    ELSE Rat(scale_max - scale_min, range_max - range_min)]

\* DataValue.process_value(val)
process_value(elt, val) ==
    Round3(RatAdd(RatMul(elt.multiplier, RatSub(val, Number(elt.range_min))),
                  Number(elt.scale_min)))

\* BaseDataElt.parse_raw(user_payload)
parse_raw(elt, user_payload) ==
    get_bits_from_bytearray(user_payload, elt.offset, elt.size)

\* BaseDataElt._set_raw(raw_value, bitarray)
set_raw(elt, raw_value, bitarray) ==
    set_bits_in_bytearray(bitarray, elt.offset, elt.size, raw_value)

\* DataValue.parse(user_payload, status)
ValueParse(elt, user_payload) ==
    LET raw == parse_raw(elt, user_payload)
    IN  ProfileField(elt.shortcut, raw, elt.description,
                     process_value(elt, Number(raw)), elt.unit, FALSE)

\* DataValue.set_value(data, bitarray)
ValueSetValue(elt, data, bitarray) ==
    set_raw(elt, PyInt(process_value(elt, data)), bitarray)

\* Value fields of the kinds the EEP has: a falling range onto a scale from
\* zero, the temperature of the class comment, a humidity, and a field whose
\* scale is its range
ValueFields ==
    {DataValue("TMP", 16, 8, PyStr("C"), 255, 0, 0, 40),
     DataValue("TMP", 16, 8, PyStr("C"), 255, 0, -40, 0),
     DataValue("HUM", 8, 8, PyStr("%"), 0, 250, 0, 100),
     DataValue("ILL", 0, 10, PyStr("lx"), 0, 1000, 0, 1000)}

\* The raw values of the range of a field, both ends included
RawRange(elt) ==
    Min(elt.range_min, elt.range_max)..Max(elt.range_min, elt.range_max)

\* A payload of four bytes with a raw value in the bits of a field
PayloadWith(elt, raw) ==
    set_bits_in_bytearray(<<0, 0, 0, 0>>, elt.offset, elt.size, raw).data

InitValue ==
    /\ \E elt \in ValueFields :
          \E raw \in RawRange(elt) :
             call = [op |-> "DataValue", elt |-> elt, raw |-> raw,
                     user_payload |-> PayloadWith(elt, raw)]
    /\ IdleController

\* elt.parse(user_payload, status)
ParseValue ==
    /\ call.op = "DataValue"
    /\ call' = [call EXCEPT !.op = "parse"] @@
               [field |-> ValueParse(call.elt, call.user_payload)]
    /\ UNCHANGED <<ctlVars, runVars, stepVars>>

\* elt.set_value(field.value, bitarray) on an empty payload
SetValue ==
    /\ call.op = "parse"
    /\ call' = [call EXCEPT !.op = "set_value"] @@
               [out |-> ValueSetValue(call.elt, FieldValue(call.field),
                                      <<0, 0, 0, 0>>)]
    /\ UNCHANGED <<ctlVars, runVars, stepVars>>

NextValue == ParseValue \/ SetValue

SpecValue == InitValue /\ [][NextValue]_vars

-----------------------------------------------------------------------------
(* Enum fields: DataEnum, its items and range items *)

\* DataEnumItem.__init__ of <item value description>
DataEnumItem(value, description) ==
    [tag |-> "item", value |-> value, description |-> description]

\* DataEnumRangeItem.__init__ of <rangeitem start end description>
DataEnumRangeItem(start, end, description) ==
    [tag |-> "rangeitem", start |-> start, end |-> end,
     description |-> description, multiplier |-> Number(1)]

\* DataEnum.__init__ of <enum shortcut offset size>: the items by their value
\* in the order of the XML, and the range items
DataEnum(shortcut, offset, size, items, range_items) ==
    [tag |-> "enum", shortcut |-> shortcut, description |-> shortcut,
     offset |-> offset, size |-> size, unit |-> PyStr(""),
     items |-> items, range_items |-> range_items]

\* What a lookup or a call gives: a value, or an exception
Returned(v) == [raised |-> "none", value |-> v]
Raised(e) == [raised |-> e, value |-> PyNone]

\* The first element of a sequence that satisfies a test, or None
FirstWhere(seq, Test(_)) ==
    IF \E k \in 1..Len(seq) : Test(seq[k])
    THEN seq[CHOOSE k \in 1..Len(seq) :
                /\ Test(seq[k])
                /\ \A j \in 1..(k - 1) : ~Test(seq[j])]
    ELSE PyNone

\* DataEnumRangeItem.is_in(value)
is_in(r, value) == r.start <= value /\ value <= r.end

\* DataEnum.get(val=val)
EnumGetVal(elt, val) ==
    LET item == FirstWhere(elt.items, LAMBDA i : i.value = val)
    IN  IF item # PyNone THEN item
        ELSE FirstWhere(elt.range_items, LAMBDA r : is_in(r, val))

\* DataEnum.get(description=description)
EnumGetDescription(elt, description) ==
    IF description = "" THEN PyNone
    ELSE LET item == FirstWhere(elt.items,
                                LAMBDA i : i.description = description)
         IN  IF item # PyNone THEN item
             ELSE FirstWhere(elt.range_items,
                             LAMBDA r : r.description = description)

\* item.parse(val) of an item or a range item
ItemParse(item, val) ==
    IF item.tag = "item" THEN PyStr(item.description)
    ELSE RatMul(Number(val), item.multiplier)

\* DataEnum.parse(user_payload, status), from the item found: None has no
\* parse
EnumItemParse(elt, raw, item) ==
    IF item = PyNone THEN Raised("AttributeError")
    ELSE Returned(ProfileField(elt.shortcut, raw, elt.description,
                               ItemParse(item, raw), elt.unit, FALSE))

\* DataEnum.parse(user_payload, status)
EnumParse(elt, user_payload) ==
    EnumItemParse(elt, parse_raw(elt, user_payload),
                  EnumGetVal(elt, parse_raw(elt, user_payload)))

\* DataEnum.set_value(val, bitarray) for val an int or a str
EnumSetValue(elt, val, bitarray) ==
    IF val.t = "num"
    THEN IF EnumGetVal(elt, val.n) = PyNone
         THEN BitsResult("ValueError", bitarray)
         ELSE set_raw(elt, val.n, bitarray)
    ELSE LET item == EnumGetDescription(elt, val.s)
         IN  IF item = PyNone \/ item.tag # "item"
             THEN BitsResult("AttributeError", bitarray)
             ELSE set_raw(elt, item.value, bitarray)

\* Enum fields: discrete items, discrete and range items, range items only
EnumFields ==
    {DataEnum("SW", 0, 8, <<DataEnumItem(0, "off"), DataEnumItem(1, "on")>>,
              <<>>),
     DataEnum("FAN", 8, 8, <<DataEnumItem(0, "auto"), DataEnumItem(255, "off")>>,
              <<DataEnumRangeItem(10, 20, "speed")>>),
     DataEnum("DIM", 20, 4, <<>>, <<DataEnumRangeItem(1, 9, "level")>>)}

\* What a caller passes to set_value: integers and strings
EnumInputs ==
    {Number(k) : k \in {0, 1, 2, 5, 9, 10, 15, 20, 21, 255, 300}}
        \cup {PyStr(s) : s \in {"off", "on", "auto", "speed", "level",
                                "nope", ""}}

EnumBuffers == {<<0, 0, 0, 0>>, <<255, 255, 255, 255>>}

InitEnum ==
    /\ \E elt \in EnumFields, val \in EnumInputs, bitarray \in EnumBuffers :
          call = [op |-> "DataEnum", elt |-> elt, val |-> val,
                  bitarray |-> bitarray]
    /\ IdleController

\* elt.set_value(val, bitarray)
SetEnum ==
    /\ call.op = "DataEnum"
    /\ call' = [call EXCEPT !.op = "set_value"] @@
               [out |-> EnumSetValue(call.elt, call.val, call.bitarray)]
    /\ UNCHANGED <<ctlVars, runVars, stepVars>>

\* elt.parse(bitarray, status) on the payload that set_value has written
ParseEnum ==
    /\ call.op = "set_value"
    /\ call.out.raised = "none"
    /\ call' = [call EXCEPT !.op = "parse"] @@
               [field |-> EnumParse(call.elt, call.out.data)]
    /\ UNCHANGED <<ctlVars, runVars, stepVars>>

NextEnum == SetEnum \/ ParseEnum

SpecEnum == InitEnum /\ [][NextEnum]_vars

-----------------------------------------------------------------------------
(* Profiles, their data groups and the telegram form *)

\* DataStatus.__init__ of <status shortcut offset>
DataStatus(shortcut, offset) ==
    [tag |-> "status", shortcut |-> shortcut, description |-> shortcut,
     offset |-> offset, size |-> 1, unit |-> PyStr("")]

\* DataStatus.parse(user_payload, status)
StatusParse(elt, status) ==
    LET raw == get_bits_from_byte(status, elt.offset, 1)
    IN  ProfileField(elt.shortcut, raw, elt.description, PyBoolean(raw # 0),
                     elt.unit, TRUE)

\* DataEnum.first and DataEnum.last
EnumFirst(elt) ==
    LET starts == {256} \cup {elt.items[k].value : k \in 1..Len(elt.items)}
                        \cup {elt.range_items[k].start :
                                  k \in 1..Len(elt.range_items)}
    IN  CHOOSE m \in starts : \A n \in starts : m <= n
EnumLast(elt) ==
    LET ends == {0} \cup {elt.items[k].value : k \in 1..Len(elt.items)}
                    \cup {elt.range_items[k].end :
                              k \in 1..Len(elt.range_items)}
    IN  CHOOSE m \in ends : \A n \in ends : m >= n

\* DataEnum.__len__
EnumLen(elt) == EnumLast(elt) - EnumFirst(elt)

\* bool(x) of None or of an element of the catalogue, the test of "if x:": an
\* enum is as true as its __len__, and a negative __len__ is a ValueError
ObjectBool(x) ==
    IF x = PyNone THEN Returned(FALSE)
    ELSE IF x.tag # "enum" THEN Returned(TRUE)
    ELSE IF EnumLen(x) < 0 THEN Raised("ValueError")
    ELSE Returned(EnumLen(x) > 0)

\* The positions of the elements of a sequence that satisfy a test, in order
RECURSIVE Positions(_, _, _)
Positions(seq, Test(_), k) ==
    IF k > Len(seq) THEN <<>>
    ELSE (IF Test(seq[k]) THEN <<k>> ELSE <<>>)
             \o Positions(seq, Test, k + 1)

\* The orders in which a set of positions can be iterated
Orders(S) ==
    {o \in [1..Cardinality(S) -> S] : \A i, j \in DOMAIN o :
                                          o[i] = o[j] => i = j}

\* ProfileData.__init__ of <data command direction>: the items in the order
\* of the XML; the other lists hold positions in items. _data_value is a
\* set of objects, its iteration order is one of the orders of its members.
ProfileData(command, direction, items, data_value) ==
    [command |-> command, direction |-> direction, items |-> items,
     data_value |-> data_value,
     operator_fields |->
         Positions(items, LAMBDA d : d.shortcut \in {"SCM", "DIV"}, 1),
     unit_fields |-> Positions(items, LAMBDA d : d.shortcut = "UN", 1),
     availability_fields |->
         Positions(items, LAMBDA d : d.shortcut \in {"TSN", "HSN"}, 1)]

\* The positions of the <value> elements of a list of items
ValuePositions(items) == Positions(items, LAMBDA d : d.tag = "value", 1)

\* ProfileData read from XML, for every order of the set _data_value
ProfileDatas(command, direction, items) ==
    {ProfileData(command, direction, items, o) :
        o \in Orders({ValuePositions(items)[k] :
                         k \in 1..Len(ValuePositions(items))})}

\* Profile.__init__: the command enum or None, and the data groups by
\* (command, direction)
Profile(commands, datas) == [commands |-> commands, datas |-> datas]

\* self.datas[(command, direction)], or self.datas.get((command, None)):
\* the position of the group in datas, 0 for None
DataOf(profile, command, direction) ==
    LET At(c, d) == {k \in 1..Len(profile.datas) :
                        /\ profile.datas[k].command = c
                        /\ profile.datas[k].direction = d}
    IN  IF At(command, direction) # {}
        THEN CHOOSE k \in At(command, direction) : TRUE
        ELSE IF At(command, PyNone) # {}
        THEN CHOOSE k \in At(command, PyNone) : TRUE
        ELSE 0

\* TelegramFunctionGroup.__init__
TelegramFunctionGroup(profile_data, command, command_shortcut, direction) ==
    [profile_data |-> profile_data, command_item |-> command,
     command_shortcut |-> IF command # PyNone /\ command_shortcut = PyNone
                          THEN PyStr("CMD") ELSE command_shortcut,
     direction |-> direction]

\* Profile.get_telegram_form(command, direction)
get_telegram_form(profile, command, direction) ==
    LET commands == ObjectBool(profile.commands)
    IN  IF commands.raised # "none" THEN commands
        ELSE IF commands.value /\ ~PyBool(command) THEN Raised("ValueError")
        ELSE Returned(TelegramFunctionGroup(
                 DataOf(profile, command, direction),
                 IF commands.value /\ PyBool(command)
                     THEN EnumGetVal(profile.commands, command.n)
                     ELSE PyNone,
                 IF commands.value /\ PyBool(command)
                     THEN PyStr(profile.commands.shortcut)
                     ELSE PyNone,
                 direction))

\* source.parse(user_payload, status) of an element of a group
EltParse(elt, user_payload, status) ==
    CASE elt.tag = "value" -> Returned(ValueParse(elt, user_payload))
      [] elt.tag = "enum" -> EnumParse(elt, user_payload)
      [] elt.tag = "status" -> Returned(StatusParse(elt, status))

\* The decimal strings that the descriptions of the operator items hold
DecimalValue ==
    [s \in {"0", "1", "2", "3", "10"} |->
        CASE s = "0" -> Number(0)
          [] s = "1" -> Number(1)
          [] s = "2" -> Number(2)
          [] s = "3" -> Number(3)
          [] s = "10" -> Number(10)]

\* float(v)
PyFloat(v) ==
    CASE v.t = "num" -> Returned(v)
      [] v.t = "bool" -> Returned(Number(IF v.b THEN 1 ELSE 0))
      [] v.t = "None" -> Raised("TypeError")
      [] v.t = "str" -> IF v.s \in DOMAIN DecimalValue
                        THEN Returned(DecimalValue[v.s])
                        ELSE Raised("ValueError")

\* ProfileData.has_value and ProfileData.has_global_operation
has_value(pd) == pd.data_value # <<>>
has_global_operation(pd) ==
    has_value(pd) /\ (Len(pd.operator_fields) = 1 \/ Len(pd.unit_fields) = 1)

\* ProfileData.factor and ProfileData.unit: the first operator field and the
\* first unit field, None when there is none
FactorItem(pd) ==
    IF pd.operator_fields # <<>> THEN pd.items[pd.operator_fields[1]]
    ELSE PyNone
UnitItem(pd) ==
    IF pd.unit_fields # <<>> THEN pd.items[pd.unit_fields[1]] ELSE PyNone

\* A call that is followed by more: its exception ends the whole, its value
\* goes on
Then(r, Go(_)) == IF r.raised # "none" THEN r ELSE Go(r.value)

\* A call whose exception is handled: the handler gets the exception
Catch(r, Go(_), Except(_)) ==
    IF r.raised # "none" THEN Except(r.raised) ELSE Go(r.value)

\* get_values, the operator: factor stays 1 when there is no operator item
\* or the item is false, else it is float(operator.value) or its inverse
GlobalFactor(pd, user_payload, status) ==
    Then(ObjectBool(FactorItem(pd)), LAMBDA truth :
        IF ~truth THEN Returned(Number(1))
        ELSE Then(EltParse(FactorItem(pd), user_payload, status),
                  LAMBDA operator :
             Then(PyFloat(FieldValue(operator)), LAMBDA f :
                 IF operator.shortcut # "DIV" THEN Returned(f)
                 ELSE IF f.n = 0 THEN Raised("ZeroDivisionError")
                 ELSE Returned(RatDiv(Number(1), f)))))

\* get_values, the unit: None when there is no unit item or the item is
\* false, else the value of the decoded unit field
GlobalUnit(pd, user_payload, status) ==
    Then(ObjectBool(UnitItem(pd)), LAMBDA truth :
        IF ~truth THEN Returned(PyNone)
        ELSE Then(EltParse(UnitItem(pd), user_payload, status),
                  LAMBDA u : Returned(FieldValue(u))))

\* get_values, "for v_i in values_item": the items after v_i.unit = unit
WithUnit(pd, unit) ==
    [k \in DOMAIN pd.items |->
        IF \E i \in DOMAIN pd.data_value : pd.data_value[i] = k
        THEN [pd.items[k] EXCEPT !.unit = unit]
        ELSE pd.items[k]]

\* v.value = v.value * factor
Multiplied(v, factor) == [v EXCEPT !.value_ = RatMul(FieldValue(v), factor)]

\* get_values, "for v_i in values_item": the fields appended to output
GlobalOutput(pd, unit, factor, user_payload) ==
    [i \in DOMAIN pd.data_value |->
        Multiplied(ValueParse([pd.items[pd.data_value[i]] EXCEPT
                                  !.unit = unit], user_payload), factor)]

\* get_values, the operator item in bypass_list when it is true
OperatorBypass(pd) ==
    IF ObjectBool(FactorItem(pd)) = Returned(TRUE)
    THEN <<pd.operator_fields[1]>> ELSE <<>>

\* The locals of get_values after its first part: the output and the bypass
\* list so far, the factor, and the items of the group with their units
Locals(output, factor, bypass_list, items) ==
    [output |-> output, factor |-> factor, bypass_list |-> bypass_list,
     items |-> items]

\* get_values, the part under "if global_process and has_global_operation"
GlobalValues(pd, user_payload, status) ==
    Then(GlobalFactor(pd, user_payload, status), LAMBDA factor :
        Then(GlobalUnit(pd, user_payload, status), LAMBDA unit :
            Returned(Locals(GlobalOutput(pd, unit, factor, user_payload),
                            factor, OperatorBypass(pd) \o pd.data_value,
                            WithUnit(pd, unit)))))

\* AVAILABILITY_FIELD_MAPPING
AVAILABILITY_FIELD_MAPPING == [HSN |-> "HUM", TSN |-> "TMP"]

\* get_values, the value field to disable for a flag that is raw 0:
\* profile_data.values is None without value fields, and metric_field[0]
\* fails when no value field has the shortcut of the metric
MetricBypass(pd, items, flag, metric_field) ==
    IF pd.data_value = <<>> THEN Raised("TypeError")
    ELSE IF metric_field = <<>> THEN Raised("IndexError")
    ELSE Returned(<<pd.data_value[metric_field[1]], flag>>)

\* get_values, one round of "for flag in availability_fields": what it
\* appends to bypass_list
FlagBypass(pd, items, user_payload, status, flag) ==
    Then(EltParse(items[flag], user_payload, status),
         LAMBDA availability_flag :
             IF availability_flag.raw_value # 0 THEN Returned(<<>>)
             ELSE MetricBypass(
                      pd, items, flag,
                      Positions(pd.data_value,
                                LAMBDA v : items[v].shortcut =
                                    AVAILABILITY_FIELD_MAPPING[
                                        availability_flag.shortcut], 1)))

\* get_values, the loop over the availability flags; any exception ends it
\* and is swallowed
RECURSIVE AvailabilityLoop(_, _, _, _, _, _)
AvailabilityLoop(pd, items, user_payload, status, i, bypass_list) ==
    IF i > Len(pd.availability_fields) THEN bypass_list
    ELSE Catch(FlagBypass(pd, items, user_payload, status,
                          pd.availability_fields[i]),
               LAMBDA found :
                   AvailabilityLoop(pd, items, user_payload, status, i + 1,
                                    bypass_list \o found),
               LAMBDA e : bypass_list)

\* get_values, the field of the command: command_item.value fails on None
\* and on a range item
CommandField(command_item) ==
    IF command_item = PyNone \/ command_item.tag # "item"
    THEN Raised("AttributeError")
    ELSE Returned(ProfileField("CMD", command_item.value,
                               "Command identifier",
                               PyStr(command_item.description), PyNone,
                               FALSE))

\* get_values, "for source in self.items"
RECURSIVE ItemsLoop(_, _, _, _, _, _, _)
ItemsLoop(items, command_item, user_payload, status, k, bypass_list, output) ==
    IF k > Len(items) THEN Returned(output)
    ELSE IF \E i \in DOMAIN bypass_list : bypass_list[i] = k
    THEN ItemsLoop(items, command_item, user_payload, status, k + 1,
                   bypass_list, output)
    ELSE Then(IF items[k].shortcut = "CMD" THEN CommandField(command_item)
              ELSE EltParse(items[k], user_payload, status),
              LAMBDA field :
                  ItemsLoop(items, command_item, user_payload, status, k + 1,
                            bypass_list, Append(output, field)))

\* The result of get_values: the exception or the output, the factor that
\* was applied, and the items of the group as the call leaves them
Values(raised, output, factor, items) ==
    [raised |-> raised, output |-> output, factor |-> factor,
     items |-> items]

\* get_values after its first part: the availability flags, then the items
ValuesAfter(pd, command_item, user_payload, status, global_process, locals) ==
    Catch(ItemsLoop(locals.items, command_item, user_payload, status, 1,
                    IF global_process /\ pd.availability_fields # <<>>
                    THEN AvailabilityLoop(pd, locals.items, user_payload,
                                          status, 1, locals.bypass_list)
                    ELSE locals.bypass_list,
                    locals.output),
          LAMBDA output : Values("none", output, locals.factor, locals.items),
          LAMBDA e : Values(e, <<>>, locals.factor, locals.items))

\* TelegramFunctionGroup.get_values(user_payload, status, global_process)
\* of a group over the data pd of the catalogue
get_values(pd, command_item, user_payload, status, global_process) ==
    Catch(IF global_process /\ has_global_operation(pd)
          THEN GlobalValues(pd, user_payload, status)
          ELSE Returned(Locals(<<>>, Number(1), <<>>, pd.items)),
          LAMBDA locals : ValuesAfter(pd, command_item, user_payload, status,
                                      global_process, locals),
          LAMBDA e : Values(e, <<>>, Number(1), pd.items))

\* Elements of the groups of the catalogue: two metrics and a meter reading,
\* a unit, a multiplier, a divisor, a command, the availability flags and a
\* status bit
HUM == DataValue("HUM", 0, 8, PyStr("%"), 0, 250, 0, 100)
TMP == DataValue("TMP", 8, 8, PyStr("C"), 0, 250, 0, 40)
MR == DataValue("MR", 8, 8, PyStr("xml"), 0, 255, 0, 255)
UN == DataEnum("UN", 22, 2, <<DataEnumItem(1, "W"), DataEnumItem(2, "kW")>>,
               <<>>)
OperatorItems ==
    <<DataEnumItem(1, "1"), DataEnumItem(2, "2"), DataEnumItem(3, "3")>>
SCM == DataEnum("SCM", 24, 2, OperatorItems, <<>>)
DIV == DataEnum("DIV", 26, 2, OperatorItems, <<>>)
CMD == DataEnum("CMD", 28, 2,
                <<DataEnumItem(1, "query"), DataEnumItem(2, "reply")>>, <<>>)
CMD1 == DataEnum("CMD", 28, 2, <<DataEnumItem(1, "query")>>, <<>>)
AvailabilityItems ==
    <<DataEnumItem(0, "not available"), DataEnumItem(1, "available")>>
TSN == DataEnum("TSN", 30, 1, AvailabilityItems, <<>>)
HSN == DataEnum("HSN", 31, 1, AvailabilityItems, <<>>)
T21 == DataStatus("T21", 5)

\* The profiles of the catalogue, for every iteration order of the value
\* sets: metrics with an availability flag, a meter with a divisor and a
\* unit, a meter with two operators with and without a unit, metrics with a
\* flag and a unit, a profile with two commands, one with a single command,
\* and one with a group per direction
Profiles ==
    {Profile(PyNone, <<pd>>) :
        pd \in ProfileDatas(PyNone, PyNone, <<HUM, TMP, TSN, T21>>)
          \cup ProfileDatas(PyNone, PyNone, <<UN, MR, DIV>>)
          \cup ProfileDatas(PyNone, PyNone, <<MR, SCM, DIV, UN>>)
          \cup ProfileDatas(PyNone, PyNone, <<MR, SCM, DIV>>)
          \cup ProfileDatas(PyNone, PyNone, <<HUM, TMP, TSN, UN>>)}
      \cup {Profile(CMD, <<q, r>>) :
               q \in ProfileDatas(Number(1), PyNone, <<CMD, TMP>>),
               r \in ProfileDatas(Number(2), PyNone, <<CMD, HUM, HSN>>)}
      \cup {Profile(CMD1, <<q>>) :
               q \in ProfileDatas(Number(1), PyNone, <<CMD, TMP>>)}
      \cup {Profile(PyNone, <<q, r>>) :
               q \in ProfileDatas(PyNone, Number(1), <<TMP>>),
               r \in ProfileDatas(PyNone, Number(2), <<HUM>>)}

\* The command and the direction that a caller passes
Commands == {PyNone, Number(0), Number(1), Number(2)}
Directions == {PyNone, Number(1)}

\* Payloads of four bytes and status bytes of telegrams
UserPayloads ==
    {<<100, 50, 1, 151>>, <<100, 50, 2, 148>>, <<0, 50, 1, 100>>,
     <<100, 0, 0, 0>>, <<100, 50, 2, 107>>}
StatusBytes == {0, 32}

\* The catalogue after load, and a caller with a command and a direction
InitEep ==
    /\ \E profile \in Profiles, command \in Commands,
          direction \in Directions :
          call = [op |-> "Profile", profile |-> profile, loaded |-> profile,
                  command |-> command, direction |-> direction]
    /\ IdleController

\* profile.get_telegram_form(command, direction)
GetTelegramForm ==
    /\ call.op = "Profile"
    /\ call' = [op |-> "get_telegram_form", profile |-> call.profile,
                loaded |-> call.loaded, command |-> call.command,
                direction |-> call.direction,
                form |-> get_telegram_form(call.profile, call.command,
                                           call.direction)]
    /\ UNCHANGED <<ctlVars, runVars, stepVars>>

\* The data of the catalogue that the group of the caller refers to
GroupData == call.profile.datas[call.form.value.profile_data]

\* group.get_values(user_payload, status, global_process) on the group that
\* get_telegram_form has returned; a group without data fails on its first
\* attribute access. The call leaves its changes in the catalogue.
GetValues ==
    /\ call.op \in {"get_telegram_form", "get_values"}
    /\ call.form.raised = "none"
    /\ \E user_payload \in UserPayloads, status \in StatusBytes,
          global_process \in BOOLEAN :
          LET out == IF call.form.value.profile_data = 0
                     THEN Values("AttributeError", <<>>, Number(1), <<>>)
                     ELSE get_values(GroupData, call.form.value.command_item,
                                     user_payload, status, global_process)
          IN  call' = [op |-> "get_values",
                       profile |->
                           IF call.form.value.profile_data = 0
                           THEN call.profile
                           ELSE [call.profile EXCEPT
                                    !.datas[call.form.value.profile_data]
                                        .items = out.items],
                       loaded |-> call.loaded, command |-> call.command,
                       direction |-> call.direction, form |-> call.form,
                       user_payload |-> user_payload, status |-> status,
                       global_process |-> global_process, out |-> out]
    /\ UNCHANGED <<ctlVars, runVars, stepVars>>

NextEep == GetTelegramForm \/ GetValues

SpecEep == InitEep /\ [][NextEep]_vars

-----------------------------------------------------------------------------
(* UTE requests of every request type at the controller *)

\* UTETeachInPacket: the request types, DB6 bits 5 and 4
TEACH_IN == 0
DELETE == 1
NOT_SPECIFIC == 2

\* A UTE request of a sensor with a request type, bidirectional and with a
\* response expected, to a destination
UteRequestOfType(request_type, destination) ==
    FrameOf(RADIO_ERP1,
            <<RORG_UTE, 128 + (16 * request_type), 255, 1, 22, 5, 2, 165>>
                \o SENSOR_ID \o <<0>>,
            <<1>> \o destination \o <<45, 0>>)

UTE_DELETE == UteRequestOfType(DELETE, BROADCAST)

TeachBlocks ==
    {VERSION_RESPONSE, UteRequestOfType(TEACH_IN, BROADCAST), UTE_DELETE,
     UteRequestOfType(NOT_SPECIFIC, BROADCAST),
     UteRequestOfType(DELETE, CHIP_ID)}

InitTeach ==
    /\ wire \in Streams(TeachBlocks, MaxBlocks)
    /\ \E tin \in BOOLEAN : InitController(tin)
    /\ NoWorker
    /\ NoPureCall

SpecTeach == InitTeach /\ [][NextCtl]_vars

-----------------------------------------------------------------------------
(* Radio telegrams of every RORG with a learn bit set or clear *)

\* The payloads of a telegram: one byte for RPS and BS1, four for BS4, one
\* to three for VLD; the last byte takes the values around bit 3
LearnBytes == {0, 7, 8, 9, 128, 135, 136, 247, 255}

LearnPayloads(rorg) ==
    CASE rorg = RORG_BS4 -> {<<0, 0, 85, b>> : b \in LearnBytes}
      [] rorg = RORG_VLD -> {<<b>> : b \in LearnBytes}
                                \cup {<<4, 96, b>> : b \in LearnBytes}
      [] OTHER -> {<<b>> : b \in LearnBytes}

\* Radio packets as Packet.parse_msg gets them: RORG, payload, sender,
\* status, and the optional bytes of a received telegram
LearnPackets ==
    UNION {{BasePacket("Packet", RADIO_ERP1,
                       <<rorg>> \o payload \o SENSOR_ID \o <<0>>,
                       <<1>> \o BROADCAST \o <<45, 0>>) :
               payload \in LearnPayloads(rorg)} :
              rorg \in {RORG_RPS, RORG_BS1, RORG_BS4, RORG_VLD}}

InitLearn ==
    /\ \E p \in LearnPackets : call = [op |-> "Packet", packet |-> p]
    /\ IdleController

SpecLearn == InitLearn /\ [][NextCodec]_vars

-----------------------------------------------------------------------------
(* The gateway publishes the adapter details while the worker runs *)

\* The answer of the adapter to CO_GET_NOISETHRESHOLD
NOISETHRESHOLD_RESPONSE == FrameOf(RESPONSE, <<0, 0, 0, 0, 46>>, <<>>)

\* What the adapter answers to a frame written to the port: the data the
\* common command asks for, and RET_OK with no data to anything else, a radio
\* telegram included
AnswerTo(frame) ==
    IF frame[5] # COMMON_COMMAND THEN RESPONSE_FRAME
    ELSE CASE frame[7] = CO_RD_VERSION -> VERSION_RESPONSE
           [] frame[7] = CO_GET_FREQUENCY_INFO -> FREQUENCY_INFO_RESPONSE
           [] frame[7] = CO_RD_IDBASE -> IDBASE_RESPONSE
           [] frame[7] = CO_GET_NOISETHRESHOLD -> NOISETHRESHOLD_RESPONSE
           [] frame[7] = CO_RD_REPEATER -> REPEATER_RESPONSE
           [] OTHER -> RESPONSE_FRAME

\* The adapter answers the oldest written frame it has not answered yet
Answer ==
    /\ hist.answered < Len(port.written)
    /\ wire' = wire \o AnswerTo(port.written[hist.answered + 1])
    /\ hist' = [hist EXCEPT !.answered = @ + 1]
    /\ UNCHANGED <<buffer, next_sync_byte, crc_errors, transmit, receive,
                   command_queue, teach_in, info, last, prev, idle, probes,
                   pc, stop_flag, port, stepVars, pureVars>>

\* Where the thread of _publish_gateway_adapter_details is: the function it
\* is in, the line, and the codes it has still to send there
At(op, at, todo) == [op |-> op, at |-> at, todo |-> todo]

\* send_common_command, line 81: self.send(Packet(COMMON_COMMAND, [code]))
CommandPut ==
    /\ call.op \in {"init_adapter", "controller_info_details", "base_id"}
    /\ call.at = "send"
    /\ transmit' = send(transmit, CommonCommandPacket(Head(call.todo)))
    /\ call' = [call EXCEPT !.at = "append"]
    /\ UNCHANGED <<wire, buffer, next_sync_byte, crc_errors, receive,
                   command_queue, teach_in, info, last, prev, idle, probes,
                   runVars, stepVars>>

\* Where the thread goes on after send_common_command returned: to the next
\* code of init_adapter, from init_adapter to controller_info_details, or to
\* the wait loop for what the command asks
AfterCommand(c) ==
    IF Tail(c.todo) # <<>> THEN At(c.op, "send", Tail(c.todo))
    ELSE IF c.op = "base_id" THEN At("base_id", "wait", <<>>)
    ELSE IF c.op = "init_adapter" THEN At("controller_info_details", "test", <<>>)
    ELSE IF Head(c.todo) = CO_RD_VERSION
    THEN At("controller_info_details", "wait_chip_id", <<>>)
    ELSE At("controller_info_details", "wait_frequency", <<>>)

\* send_common_command, line 82: self.command_queue.append(code), in the
\* thread that called it
CommandAppend ==
    /\ call.op \in {"init_adapter", "controller_info_details", "base_id"}
    /\ call.at = "append"
    /\ command_queue' = Append(command_queue, Head(call.todo))
    /\ call' = AfterCommand(call)
    /\ UNCHANGED <<wire, buffer, next_sync_byte, crc_errors, transmit, receive,
                   teach_in, info, last, prev, idle, probes, runVars,
                   stepVars>>

\* controller_info_details, lines 199-202: the details are returned when the
\* chip id and the frequency are there, else CO_RD_VERSION is sent
DetailsTest ==
    /\ call.op = "controller_info_details"
    /\ call.at = "test"
    /\ call' = IF Truthy(info.chip_id) /\ Known(info.frequency)
               THEN At("controller_info_details", "return", <<>>)
               ELSE At("controller_info_details", "send", <<CO_RD_VERSION>>)
    /\ UNCHANGED <<ctlVars, runVars, stepVars>>

\* controller_info_details, lines 203-205: the wait for the chip id ends and
\* CO_GET_FREQUENCY_INFO is sent
DetailsChipId ==
    /\ call.op = "controller_info_details"
    /\ call.at = "wait_chip_id"
    /\ Truthy(info.chip_id)
    /\ call' = At("controller_info_details", "send", <<CO_GET_FREQUENCY_INFO>>)
    /\ UNCHANGED <<ctlVars, runVars, stepVars>>

\* controller_info_details, lines 206-208: the wait for the frequency ends
DetailsFrequency ==
    /\ call.op = "controller_info_details"
    /\ call.at = "wait_frequency"
    /\ Known(info.frequency)
    /\ call' = At("controller_info_details", "return", <<>>)
    /\ UNCHANGED <<ctlVars, runVars, stepVars>>

\* _publish_gateway_adapter_details, lines 260-264: the details returned are
\* published on the adapter topic
PublishDetails ==
    /\ call.op = "controller_info_details"
    /\ call.at = "return"
    /\ call' = [op |-> "published", id |-> info.chip_id,
                frequency |-> info.frequency]
    /\ UNCHANGED <<ctlVars, runVars, stepVars>>

\* The worker is started, and the MQTT client thread enters
\* _publish_gateway_adapter_details, whose first call is init_adapter
InitAnswer ==
    /\ wire = <<>>
    /\ InitController(FALSE)
    /\ pc = "read_until"
    /\ stop_flag = FALSE
    /\ port = InitialPort
    /\ hist = NoHistory
    /\ call = At("init_adapter", "send", INIT_ADAPTER_CODES)

\* The adapter has answered every frame written to the port
Answered == hist.answered = Len(port.written)

\* The worker thread, the adapter at the other end of the port, which answers
\* a frame as soon as it is written, and the thread that publishes the
\* adapter details
NextAnswer ==
    \/ Answer
    \/ Answered /\ ReadUntil
    \/ Answered /\ LoopTest
    \/ Answered /\ SendLoop
    \/ Answered /\ PortRead
    \/ Answered /\ Parse
    \/ Answered /\ CommandPut
    \/ Answered /\ CommandAppend
    \/ Answered /\ DetailsTest
    \/ Answered /\ DetailsChipId
    \/ Answered /\ DetailsFrequency
    \/ Answered /\ PublishDetails

SpecAnswer == InitAnswer /\ [][NextAnswer]_vars

-----------------------------------------------------------------------------
(* A thread asks for the base id while telegrams are sent *)

\* The worker is started; the main thread is in the base_id getter
\* (Communicator.run, line 588), the base id is not set and the getter is
\* about to send CO_RD_IDBASE
InitGetter ==
    /\ wire = <<>>
    /\ InitController(FALSE)
    /\ pc = "read_until"
    /\ stop_flag = FALSE
    /\ port = InitialPort
    /\ hist = NoHistory
    /\ call = At("base_id", "send", <<CO_RD_IDBASE>>)

\* The worker thread, the adapter, the thread in the base_id getter and the
\* MQTT callback thread, which sends telegrams
NextGetter ==
    \/ Answer
    \/ Answered /\ ReadUntil
    \/ Answered /\ LoopTest
    \/ Answered /\ SendLoop
    \/ Answered /\ PortRead
    \/ Answered /\ Parse
    \/ Answered /\ CommandPut
    \/ Answered /\ CommandAppend
    \/ Answered /\ BaseIdReturn
    \/ Answered /\ Send

SpecGetter == InitGetter /\ [][NextGetter]_vars

-----------------------------------------------------------------------------
(* Requests from MQTT and replies: the gateway builds a telegram *)

RORG_MSC == 209

\* The sender create_message takes when it gets none
DEFAULT_SENDER == <<222, 173, 190, 239>>

\* The learn bit of a 4BS and of a 1BS telegram, as a field of a profile
LRNB == DataEnum("LRNB", 28, 1, <<DataEnumItem(0, "Teach-in telegram"), DataEnumItem(1, "Data telegram")>>, <<>>)
LRNB1 == DataEnum("LRNB", 4, 1, <<DataEnumItem(0, "pressed"), DataEnumItem(1, "not pressed")>>, <<>>)
CO == DataEnum("CO", 7, 1, <<DataEnumItem(0, "open"), DataEnumItem(1, "closed")>>, <<>>)

\* Equipment.__init__: the RORG and the profile of the EEP, the command
\* shortcut ("CMD" when the configuration has none), the default data (0 for
\* none)
Equipment(rorg, profile, command, default_data) ==
    [rorg |-> rorg, profile |-> profile, command |-> command,
     default_data |-> default_data, direction |-> PyNone]

\* A 4BS profile without commands, a 4BS profile with a command, a 1BS
\* profile without commands
RequestProfiles ==
    {<<RORG_BS4, Profile(PyNone, <<ProfileData(PyNone, PyNone, <<TMP, LRNB>>, <<1>>)>>)>>,
     <<RORG_BS4, Profile(CMD1, <<ProfileData(Number(1), PyNone, <<CMD, TMP>>, <<2>>)>>)>>,
     <<RORG_BS1, Profile(PyNone, <<ProfileData(PyNone, PyNone, <<CO, LRNB1>>, <<>>)>>)>>}

\* The values of default_data in a configuration: none, 0x01000000, 0x08,
\* 0x0000000F
DefaultDatas == {0, 16777216, 8, 15}

Equipments ==
    {Equipment(rp[1], rp[2], command, default_data) :
        rp \in RequestProfiles, command \in {"CMD", ""},
        default_data \in DefaultDatas}

\* A key of a JSON payload with its value
Item(key, value) == [key |-> key, value |-> value]

\* The JSON payloads of requests, the keys in the order of the message
Requests ==
    {<<>>,
     <<Item("TMP", Number(20))>>,
     <<Item("CMD", Number(1)), Item("TMP", Number(20))>>,
     <<Item("CMD", Number(0)), Item("TMP", Number(20))>>,
     <<Item("TMP", Number(20)), Item("LRNB", Number(0))>>,
     <<Item("CO", Number(1))>>,
     <<Item("CO", Number(1)), Item("LRNB", Number(0))>>}

\* The data and the learn flag of telegrams the gateway replies to: a 4BS
\* teach-in telegram with an EEP, a 4BS and a 1BS data telegram
ReceivedTelegrams ==
    {[data |-> <<RORG_BS4, 8, 40, 13, 128>> \o SENSOR_ID \o <<0>>, learn |-> TRUE],
     [data |-> <<RORG_BS4, 0, 0, 85, 8>> \o SENSOR_ID \o <<0>>, learn |-> FALSE],
     [data |-> <<RORG_BS1, 9>> \o SENSOR_ID \o <<0>>, learn |-> FALSE]}

\* payload.get(key) of a dict
DictGet(payload, key) ==
    IF \E k \in DOMAIN payload : payload[k].key = key
    THEN payload[CHOOSE k \in DOMAIN payload : payload[k].key = key].value
    ELSE PyNone

\* data[lo:hi] = values of a Python list
SliceAssign(data, lo, hi, values) ==
    SubSeq(data, 1, Min(lo, Len(data))) \o values \o SubSeq(data, Min(hi, Len(data)) + 1, Len(data))

\* create_message, lines 289-299 and 315-320: the RORG, the payload with the
\* learn bit of a 1BS or 4BS telegram that is not a learn telegram, the
\* sender and the status
CreatedData(rorg, sender, learn) ==
    LET payload == IF rorg = RORG_BS4 THEN <<0, 0, 0, 0>> ELSE <<0>>
    IN  <<rorg>>
          \o (IF rorg \in {RORG_BS1, RORG_BS4} /\ ~learn
              THEN [payload EXCEPT ![Len(payload)] = BitOr(@, ShiftLeft(1, 3))]
              ELSE payload)
          \o sender \o <<0>>

\* What create_message returns: the packet and its message form
Created(data, optional, message) ==
    [data |-> data, optional |-> optional, message |-> message]

\* Packet.create_message(RADIO_ERP1, equipment, direction, command, None,
\* sender, learn), which the gateway calls create_telegram; the payload
\* length of a VLD or MSC telegram is read from message.bits, which a
\* TelegramFunctionGroup does not have
create_message(equipment, direction, command, sender, learn) ==
    IF equipment.rorg \notin {RORG_RPS, RORG_BS1, RORG_BS4, RORG_VLD, RORG_MSC}
    THEN Raised("ValueError")
    ELSE Then(get_telegram_form(equipment.profile, command, direction),
              LAMBDA message :
                  IF equipment.rorg \notin {RORG_RPS, RORG_BS1, RORG_BS4}
                  THEN Raised("AttributeError")
                  ELSE Returned(Created(
                           CreatedData(equipment.rorg,
                                       IF sender = None THEN DEFAULT_SENDER
                                       ELSE sender,
                                       learn),
                           <<3>> \o BROADCAST \o <<255, 0>>, message)))

\* ProfileData.get(shortcut): the position of the first item with the
\* shortcut, 0 for None
ItemGet(items, shortcut) ==
    IF \E k \in DOMAIN items : items[k].shortcut = shortcut
    THEN CHOOSE k \in DOMAIN items :
             /\ items[k].shortcut = shortcut
             /\ \A j \in 1..(k - 1) : items[j].shortcut # shortcut
    ELSE 0

\* target.set_value(value, packet.data_payload) of a value or of an enum
SetField(elt, value, payload) ==
    IF elt.tag = "value" THEN ValueSetValue(elt, value, payload)
    ELSE EnumSetValue(elt, value, payload)

\* The data of a packet with another payload
WithPayload(data, payload) ==
    <<data[1]>> \o payload \o SubSeq(data, Len(data) - 4, Len(data))

\* TelegramFunctionGroup.set_values(packet, values), from the k-th key on:
\* the data of the packet afterwards
RECURSIVE SetValues(_, _, _, _)
SetValues(items, values, k, data) ==
    IF k > Len(values) THEN Returned(data)
    ELSE IF ItemGet(items, values[k].key) = 0 THEN Raised("AttributeError")
    ELSE IF items[ItemGet(items, values[k].key)].tag = "status"
    THEN SetValues(items, values, k + 1,
                   [data EXCEPT ![Len(data)] =
                       set_bits_to_byte(@, items[ItemGet(items, values[k].key)].offset,
                                        values[k].value.n, 1)])
    ELSE Catch(LET r == SetField(items[ItemGet(items, values[k].key)],
                                 values[k].value,
                                 PySlice(data, 1, Len(data) - 5))
               IN  [raised |-> r.raised, value |-> r.data],
               LAMBDA payload :
                   SetValues(items, values, k + 1, WithPayload(data, payload)),
               LAMBDA e : Raised(e))

\* What a call of the gateway leaves: the exception that left it, and the
\* packets it put on the transmit queue
Outcome(raised, packets) == [raised |-> raised, packets |-> packets]

\* The four bytes of default_data, the highest first
DefaultBytes(default_data) ==
    [k \in 1..4 |-> ShiftRight(default_data, 8 * (4 - k)) % 256]

\* _send_packet_to_esp, lines 574-596: the data of the created packet is
\* assembled and the packet is sent
Assemble(equipment, data, learn_data, created) ==
    IF learn_data # None
    THEN Outcome("none",
              <<BasePacket("RadioPacket", RADIO_ERP1,
                           [SliceAssign(created.data, 1, 5, PySlice(learn_data, 1, 5))
                               EXCEPT ![5] = 240],
                           created.optional)>>)
    ELSE IF data = <<>>
    THEN Outcome("none",
              <<BasePacket("RadioPacket", RADIO_ERP1,
                           IF equipment.default_data # 0
                           THEN SliceAssign(created.data, 1, 5,
                                            DefaultBytes(equipment.default_data))
                           ELSE created.data,
                           created.optional)>>)
    ELSE IF created.message.profile_data = 0 THEN Outcome("AttributeError", <<>>)
    ELSE Catch(SetValues(equipment.profile.datas[created.message.profile_data].items,
                         data, 1,
                         IF equipment.default_data # 0
                         THEN SliceAssign(created.data, 1, 5,
                                          DefaultBytes(equipment.default_data))
                         ELSE created.data),
               LAMBDA d : Outcome("none", <<NewPacket("RadioPacket", RADIO_ERP1, d, created.optional).value>>),
               LAMBDA e : Outcome(e, <<>>))

\* Gateway._send_packet_to_esp(equipment, data, command, negate_direction,
\* learn_data) of a gateway whose controller has the address own; ValueError
\* of create_telegram is logged, any other exception meets NotImplemented
\* in the except clause, which raises TypeError
send_packet_to_esp(equipment, data, command, negate_direction, learn_data, own) ==
    Catch(create_message(equipment,
                         IF ~negate_direction THEN PyNone
                         ELSE IF equipment.direction = Number(2) THEN Number(1)
                         ELSE Number(2),
                         command, own, learn_data # None),
          LAMBDA created : Assemble(equipment, data, learn_data, created),
          LAMBDA e : IF e = "ValueError" THEN Outcome("none", <<>>)
                     ELSE Outcome("TypeError", <<>>))

\* Gateway._handle_mqtt_message(equipment, payload)
handle_mqtt_message(equipment, payload, own) ==
    IF payload = <<>> THEN Outcome("none", <<>>)
    ELSE IF equipment.command = ""
    THEN send_packet_to_esp(equipment, payload, PyNone, FALSE, None, own)
    ELSE IF ~PyBool(DictGet(payload, equipment.command)) THEN Outcome("none", <<>>)
    ELSE send_packet_to_esp(equipment, payload,
                            DictGet(payload, equipment.command), FALSE, None,
                            own)

\* A request arrives for an equipment, or a telegram of an equipment that is
\* replied to
InitRequest ==
    /\ IdleController
    /\ \E equipment \in Equipments :
          \/ \E payload \in Requests :
                call = [op |-> "request", equipment |-> equipment,
                        payload |-> payload]
          \/ \E packet \in ReceivedTelegrams :
                call = [op |-> "telegram", equipment |-> equipment,
                        packet |-> packet]

\* The MQTT callback thread: _handle_mqtt_message for the request
HandleMqttMessage ==
    /\ call.op = "request"
    /\ \E out \in {handle_mqtt_message(call.equipment, call.payload, address(info))} :
          /\ transmit' = SendAll(transmit, out.packets)
          /\ call' = [op |-> "handled", equipment |-> call.equipment,
                      payload |-> call.payload, raised |-> out.raised]
    /\ UNCHANGED <<wire, buffer, next_sync_byte, crc_errors, receive,
                   command_queue, teach_in, info, last, prev, idle, probes,
                   runVars, stepVars>>

\* Gateway._reply_packet(packet, equipment) with no answer configured
ReplyPacket ==
    /\ call.op = "telegram"
    /\ \E out \in {send_packet_to_esp(call.equipment, <<>>, PyNone, TRUE,
                                      IF call.packet.learn THEN call.packet.data
                                      ELSE None,
                                      address(info))} :
          /\ transmit' = SendAll(transmit, out.packets)
          /\ call' = [op |-> "replied", equipment |-> call.equipment,
                      packet |-> call.packet, raised |-> out.raised]
    /\ UNCHANGED <<wire, buffer, next_sync_byte, crc_errors, receive,
                   command_queue, teach_in, info, last, prev, idle, probes,
                   runVars, stepVars>>

NextRequest == HandleMqttMessage \/ ReplyPacket

SpecRequest == InitRequest /\ [][NextRequest]_vars

-----------------------------------------------------------------------------
(* The main thread: Gateway.run *)

\* controller.is_alive(): the worker thread has not left run()
is_alive == pc \notin {"closed", "crashed"}

\* Where the main thread is in run(), the platform it runs on, and the
\* gateway status it has published
Running(at, platform, status) ==
    [op |-> "run", at |-> at, platform |-> platform, status |-> status]

\* run(), line 677: the loop test
GatewayTest ==
    /\ call.op = "run"
    /\ call.at = "while"
    /\ call' = [call EXCEPT !.at = IF is_alive THEN "get" ELSE "cleanup"]
    /\ UNCHANGED <<ctlVars, runVars, stepVars>>

\* run(), lines 681-685 and 703-704: receive.get(block=True) returns the
\* oldest packet when there is one; on Windows it gives up after a second
\* with queue.Empty, elsewhere it waits
GatewayGet ==
    /\ call.op = "run"
    /\ call.at = "get"
    /\ IF receive # <<>>
       THEN /\ got' = Head(receive)
            /\ receive' = Tail(receive)
            /\ call' = [call EXCEPT !.at = "handle"]
       ELSE /\ call.platform = "Windows"
            /\ call' = [call EXCEPT !.at = "while"]
            /\ UNCHANGED <<got, receive>>
    /\ UNCHANGED <<wire, buffer, next_sync_byte, crc_errors, transmit,
                   command_queue, teach_in, info, last, prev, idle, probes,
                   pending, runVars>>

\* run(), lines 686-702: the packet is handled by its type
GatewayHandle ==
    /\ call.op = "run"
    /\ call.at = "handle"
    /\ call' = [call EXCEPT !.at = "while"]
    /\ UNCHANGED <<ctlVars, runVars, stepVars>>

\* run(), lines 708-720: after the loop the OFFLINE status is published, the
\* controller is stopped and the MQTT client disconnects
GatewayCleanup ==
    /\ call.op = "run"
    /\ call.at = "cleanup"
    /\ call' = [call EXCEPT !.at = "disconnected", !.status = "OFFLINE"]
    /\ stop_flag' = TRUE
    /\ UNCHANGED <<ctlVars, pc, port, hist, stepVars>>

\* What the adapter sends while the gateway runs
GatewayStreams ==
    {<<>>, RPS_FRAME, RPS_FRAME \o RPS_FRAME, RESPONSE_FRAME \o RPS_FRAME,
     UTE_REQUEST}

\* The worker is started and the main thread enters run()
InitGateway ==
    /\ wire \in GatewayStreams
    /\ InitController(FALSE)
    /\ pc = "read_until"
    /\ stop_flag = FALSE
    /\ port = InitialPort
    /\ hist = NoHistory
    /\ \E platform \in {"Linux", "Windows"} :
          call = Running("while", platform, "ONLINE")

Worker == ReadUntil \/ LoopTest \/ SendLoop \/ PortRead \/ Parse

GatewayThread == GatewayTest \/ GatewayGet \/ GatewayHandle \/ GatewayCleanup

NextGateway ==
    \/ ReadUntil
    \/ LoopTest
    \/ SendLoop
    \/ PortRead
    \/ Parse
    \/ Stop
    \/ GatewayTest
    \/ GatewayGet
    \/ GatewayHandle
    \/ GatewayCleanup

\* Both threads are scheduled: each takes a step whenever it has one
SpecGateway ==
    InitGateway /\ [][NextGateway]_vars /\ WF_vars(Worker) /\ WF_vars(GatewayThread)

-----------------------------------------------------------------------------
(* Frames, as the claims speak of them *)

\* A complete valid ESP3 frame starts at 0-based position p of buf: the sync
\* byte, four header bytes, their CRC8, the body, its CRC8
ValidFrameAt(buf, p) ==
    LET b == PyFrom(buf, p)
    IN  /\ Len(b) >= FRAME_OVERHEAD
        /\ b[1] = SYNC
        /\ b[6] = crc8_calc(<<b[2], b[3], b[4], b[5]>>)
        /\ LET n == FRAME_OVERHEAD + (b[2] * 256) + b[3] + b[4]
           IN  /\ Len(b) >= n
               /\ b[n] = crc8_calc(PySlice(b, 6, n - 1))

\* The length of the frame whose header starts at position p
FrameLenAt(buf, p) ==
    FRAME_OVERHEAD + (buf[p + 2] * 256) + buf[p + 3] + buf[p + 4]

\* The frame that starts at position p
FrameAt(buf, p) == PySlice(buf, p, p + FrameLenAt(buf, p))

\* The leading bytes the latest read() took off the buffer
Removed == Len(last.buffer) - Len(buffer)

\* (C1) read() takes the first byte of a complete valid frame off the buffer
\* only when it cuts out exactly that frame: the scanner never skips the
\* start of a valid frame.
C1_NeverSkipsValidFrame ==
    last.called =>
        \A p \in 0..(Removed - 1) :
            ValidFrameAt(last.buffer, p) =>
                /\ p = 0
                /\ last.frame = FrameAt(last.buffer, 0)
                /\ Removed = Len(last.frame)

\* The header CRC of the bytes at the start of buf does not match
HeaderMismatch(buf) ==
    /\ Len(buf) >= 6
    /\ buf[6] # crc8_calc(<<buf[2], buf[3], buf[4], buf[5]>>)

\* 0-based positions, from 1 on, at which buf holds a sync byte
SyncPositions(buf) == {i \in 1..(Len(buf) - 1) : buf[i + 1] = SYNC}

\* The first of them
NextSyncPosition(buf) ==
    CHOOSE i \in SyncPositions(buf) : \A j \in SyncPositions(buf) : i <= j

\* The buffer starts with a mismatching header and a complete valid frame
\* starts at its next sync byte
BadHeaderThenFrame(buf) ==
    /\ HeaderMismatch(buf)
    /\ SyncPositions(buf) # {}
    /\ ValidFrameAt(buf, NextSyncPosition(buf))

\* (C2) When the buffer starts with a header whose CRC8 does not match and a
\* complete valid frame starts at the next sync byte, one read() drops exactly
\* the bytes before that sync byte and counts one CRC error, and the read()
\* after it cuts out that frame.
C2_ResyncAfterBadHeader ==
    /\ (last.called /\ BadHeaderThenFrame(last.buffer)) =>
          /\ buffer = PyFrom(last.buffer, NextSyncPosition(last.buffer))
          /\ crc_errors = last.crc_errors + 1
          /\ last.raised = "none"
          /\ last.frame = <<>>
    /\ (last.called /\ prev.called /\ BadHeaderThenFrame(prev.buffer)) =>
          /\ last.frame = FrameAt(prev.buffer, NextSyncPosition(prev.buffer))
          /\ last.crc_errors = prev.crc_errors + 1

C2_Witness ==
    /\ last.called
    /\ prev.called
    /\ BadHeaderThenFrame(prev.buffer)
    /\ prev.buffer[1] = SYNC
    /\ last.stage = "packet"
    /\ crc_errors = prev.crc_errors + 1

\* The buffer is two valid frames, one after the other, and nothing else
TwoFrames(buf) ==
    /\ ValidFrameAt(buf, 0)
    /\ ValidFrameAt(buf, FrameLenAt(buf, 0))
    /\ Len(buf) = FrameLenAt(buf, 0) + FrameLenAt(buf, FrameLenAt(buf, 0))

\* (C4) When the buffer is exactly two valid frames, two read() calls in a
\* row cut out the first and then the second, in wire order; the buffer is
\* empty afterwards and next_sync_byte is back at its initial value.
C4_TwoFramesInOrder ==
    /\ (last.called /\ TwoFrames(last.buffer)) =>
          /\ last.frame = FrameAt(last.buffer, 0)
          /\ buffer = PyFrom(last.buffer, FrameLenAt(last.buffer, 0))
    /\ (last.called /\ prev.called /\ TwoFrames(prev.buffer)) =>
          /\ prev.frame = FrameAt(prev.buffer, 0)
          /\ last.frame = FrameAt(prev.buffer, FrameLenAt(prev.buffer, 0))
          /\ buffer = <<>>
          /\ next_sync_byte = NEXT_SYNC_INITIAL

C4_Witness ==
    /\ last.called
    /\ prev.called
    /\ TwoFrames(prev.buffer)
    /\ prev.frame # last.frame
    /\ prev.stage = "packet"
    /\ last.stage = "packet"
    /\ prev.next_sync_byte > NEXT_SYNC_INITIAL

\* buf is a proper prefix of some valid frame: nothing, or a sync byte and
\* then fewer bytes than the header with a matching CRC announces
ProperFramePrefix(buf) ==
    \/ buf = <<>>
    \/ /\ buf[1] = SYNC
       /\ \/ Len(buf) < 6
          \/ /\ ~HeaderMismatch(buf)
             /\ Len(buf) < FrameLenAt(buf, 0)

\* (C5) On a proper prefix of a valid frame (the empty buffer and a lone sync
\* byte included) read() signals FrameIncomplete and leaves the buffer as it
\* is; once the rest of the frame is there, read() cuts out that frame,
\* however many incomplete calls came before.
C5_IncompleteThenExtracted ==
    /\ (last.called /\ ProperFramePrefix(last.buffer)) =>
          /\ last.raised = "FrameIncompleteError"
          /\ buffer = last.buffer
          /\ last.frame = <<>>
    /\ (last.called /\ ValidFrameAt(last.buffer, 0)) =>
          /\ last.frame = FrameAt(last.buffer, 0)
          /\ buffer = PyFrom(last.buffer, Len(last.frame))

C5_Witness ==
    /\ last.called
    /\ ValidFrameAt(last.buffer, 0)
    /\ last.idle = MaxIdleReads
    /\ last.next_sync_byte > NEXT_SYNC_INITIAL
    /\ last.stage = "packet"

\* (C6) The scanner checks a header, and cuts out a frame, only where the
\* buffer holds the sync byte: every frame handed to the packet parser starts
\* with 0x55.
C6_FramesStartWithSync ==
    last.called =>
        /\ (last.stage # "header") => last.buffer[1] = SYNC
        /\ (last.frame # <<>>) => last.frame[1] = SYNC

\* A complete frame at the start of buf whose header CRC8 matches and whose
\* body CRC8 does not
BadBodyFrame(buf) ==
    /\ Len(buf) >= FRAME_OVERHEAD
    /\ ~HeaderMismatch(buf)
    /\ Len(buf) >= FrameLenAt(buf, 0)
    /\ buf[FrameLenAt(buf, 0)]
           # crc8_calc(PySlice(buf, 6, FrameLenAt(buf, 0) - 1))

\* (C3) A frame whose header CRC8 matches, whose body is complete and whose
\* body CRC8 does not match is dropped: read() puts nothing on the receive
\* queue, hands nothing to the response parser (no pending command is
\* removed, no adapter field written, nothing transmitted), counts exactly
\* one CRC error, and leaves the buffer at the bytes that follow the frame.
C3_BadBodyDropped ==
    (last.called /\ BadBodyFrame(last.buffer)) =>
        /\ receive = last.receive
        /\ transmit = last.transmit
        /\ command_queue = last.command_queue
        /\ info = last.info
        /\ last.routed = "none"
        /\ last.raised = "none"
        /\ crc_errors = last.crc_errors + 1
        /\ buffer = PyFrom(last.buffer, FrameLenAt(last.buffer, 0))
        /\ next_sync_byte = NEXT_SYNC_INITIAL

C3_Witness ==
    /\ last.called
    /\ BadBodyFrame(last.buffer)
    /\ last.buffer[5] = RESPONSE
    /\ last.command_queue # <<>>
    /\ crc_errors = last.crc_errors + 1
    /\ buffer # <<>>

\* The frame is a radio telegram whose first data byte is the UTE RORG
IsUteFrame(frame) ==
    /\ Len(frame) > FRAME_OVERHEAD
    /\ frame[5] = RADIO_ERP1
    /\ frame[7] = RORG_UTE

\* The destination in the optional bytes of a radio frame
FrameDestination(frame) ==
    LET data_len == (frame[2] * 256) + frame[3]
    IN  SubSeq(frame, 6 + data_len + 2, 6 + data_len + 5)

\* (C10) read() adds a packet to the transmit queue only for a UTE request
\* processed while teach_in was true and whose destination is not the
\* controller's own address; a UTE request processed with teach_in false, or
\* addressed to the controller itself, adds nothing to the transmit queue.
\* The gateway may switch teach_in between any two calls.
C10_UteResponseOnlyWhenTeachIn ==
    last.called =>
        /\ (transmit # last.transmit) =>
              /\ IsUteFrame(last.frame)
              /\ last.teach_in
              /\ FrameDestination(last.frame) # last.info.chip_id
              /\ Len(transmit) = Len(last.transmit) + 1
              /\ transmit[Len(transmit)].rorg = RORG_UTE
        /\ (/\ IsUteFrame(last.frame)
            /\ \/ ~last.teach_in
               \/ FrameDestination(last.frame) = last.info.chip_id) =>
              transmit = last.transmit

C10_Witness ==
    /\ last.called
    /\ prev.called
    /\ IsUteFrame(last.frame)
    /\ last.teach_in
    /\ ~prev.teach_in
    /\ ~teach_in
    /\ last.info.chip_id = CHIP_ID
    /\ Len(transmit) = Len(last.transmit) + 1

\* (C7) Whatever bytes arrive, the worker's run loop ends only after stop()
\* was called or after a transport I/O error: the thread is never ended by
\* an exception out of the parsing of received bytes.
C7_WorkerEndsOnlyOnStop ==
    (pc \in {"closed", "crashed"}) => (stop_flag \/ port.io_error)

\* (C8) For every packet whose data is at most 65535 bytes and whose
\* optional bytes are at most 255, parse_msg on the bytes build() produced
\* gives the result OK, nothing remaining, and a packet with the same packet
\* type, data and optional bytes.
C8_BuildParseRoundTrip ==
    call.op = "parse_msg" =>
        /\ call.out.raised = "none"
        /\ call.out.result = "OK"
        /\ call.out.remaining = <<>>
        /\ call.out.packet.packet_type = call.packet.packet_type
        /\ call.out.packet.data = call.packet.data
        /\ call.out.packet.optional = call.packet.optional

\* The number two response bits spell
ResponseCode(response) ==
    (IF response[1] THEN 2 ELSE 0) + (IF response[2] THEN 1 ELSE 0)

\* (C9) The UTE response built for a teach-in request is 13 data bytes: 0xD4,
\* the control byte 0b10000001 | (response code << 4) (0x91 for an accepted
\* teach-in), bytes 2..7 of the request, the four bytes of the controller
\* address, and the status byte 0; its destination, in the optional bytes, is
\* the sender of the request.
C9_UteResponseContent ==
    (call.op = "create_response_packet" /\ call.out.raised = "none") =>
        LET resp == call.out.value
            req == call.packet
        IN  /\ Len(resp.data) = 13
            /\ resp.data[1] = 212
            /\ resp.data[2] = 129 + (16 * ResponseCode(call.response))
            /\ (call.response = TEACHIN_ACCEPTED) => resp.data[2] = 145
            /\ SubSeq(resp.data, 3, 8) = SubSeq(req.data, 3, 8)
            /\ SubSeq(resp.data, 9, 12) = call.sender_id
            /\ resp.data[13] = 0
            /\ SubSeq(resp.optional, 2, 5) = req.sender
            /\ resp.destination = req.sender
            /\ resp.packet_type = RADIO_ERP1

C9_Witness ==
    /\ call.op = "create_response_packet"
    /\ call.response = TEACHIN_ACCEPTED
    /\ call.sender_id = CHIP_ID
    /\ call.packet.sender = SENSOR_ID
    /\ call.out.raised = "none"
    /\ call.out.value.data
          = <<212, 145, 255, 1, 22, 5, 2, 165, 222, 173, 190, 239, 0>>
    /\ call.out.value.destination = SENSOR_ID

\* (C11) Whenever read() answers a UTE teach-in request, the response is put
\* on the transmit queue before the request is put on the receive queue: as
\* long as a response is still to be put, the request it answers is still to
\* be put after it, so the gateway cannot have taken it.
C11_ResponseBeforeRequest ==
    \A i \in 1..Len(pending) :
        pending[i].queue = "transmit" =>
            \E j \in (i + 1)..Len(pending) :
                /\ pending[j].queue = "receive"
                /\ pending[j].packet.rorg = RORG_UTE
                /\ pending[i].packet.destination = pending[j].packet.sender

\* The response is on the transmit queue, the request not yet on the receive
\* queue
C11_Witness ==
    /\ Len(pending) = 1
    /\ pending[1].queue = "receive"
    /\ pending[1].packet.rorg = RORG_UTE
    /\ transmit # <<>>
    /\ transmit[Len(transmit)].rorg = RORG_UTE
    /\ transmit[Len(transmit)].destination = pending[1].packet.sender
    /\ receive = <<>>
    /\ last.info.chip_id = CHIP_ID

\* (C12) A call of init_adapter puts exactly five common-command packets on
\* the transmit queue, behind what is there, for CO_RD_VERSION,
\* CO_GET_FREQUENCY_INFO, CO_RD_IDBASE, CO_GET_NOISETHRESHOLD and
\* CO_RD_REPEATER in this order, and appends the same codes in the same order
\* to command_queue: the i-th code added is the data of the i-th packet added.
C12_InitAdapterEnqueuesFive ==
    [][probes' # probes =>
          /\ Len(transmit') = Len(transmit) + 5
          /\ SubSeq(transmit', 1, Len(transmit)) = transmit
          /\ command_queue'
                = command_queue \o <<CO_RD_VERSION, CO_GET_FREQUENCY_INFO,
                                     CO_RD_IDBASE, CO_GET_NOISETHRESHOLD,
                                     CO_RD_REPEATER>>
          /\ \A i \in 1..5 :
                LET p == transmit'[Len(transmit) + i]
                IN  /\ p.packet_type = COMMON_COMMAND
                    /\ p.data = <<command_queue'[Len(command_queue) + i]>>
                    /\ p.optional = <<>>]_vars

\* init_adapter was called while received bytes were waiting in the buffer
C12_Witness ==
    /\ probes = 1
    /\ buffer # <<>>
    /\ Len(transmit) = 5
    /\ transmit[1].data = <<CO_RD_VERSION>>
    /\ transmit[5].data = <<CO_RD_REPEATER>>
    /\ command_queue = <<CO_RD_VERSION, CO_GET_FREQUENCY_INFO, CO_RD_IDBASE,
                         CO_GET_NOISETHRESHOLD, CO_RD_REPEATER>>

\* The frame is a Response
IsResponseFrame(frame) == Len(frame) >= FRAME_OVERHEAD /\ frame[5] = RESPONSE

\* The adapter fields the answer to a command code is written to
FieldsOf(code) ==
    CASE code = CO_RD_VERSION -> {"chip_id"}
      [] code = CO_RD_IDBASE -> {"base_id"}
      [] code = CO_GET_FREQUENCY_INFO -> {"frequency", "protocol"}
      [] code = CO_RD_REPEATER -> {"repeater_mode", "repeater_level"}
      [] OTHER -> {}

\* (C13) In every step: a Response packet processed while command_queue is
\* not empty removes exactly the oldest code and leaves the others in order;
\* adapter fields change only in such a step, and only those that belong to
\* the removed code (so a Response processed with an empty command_queue
\* changes none); command_queue changes otherwise only by codes appended
\* behind, so a code leaves it only with a Response.
C13_ResponsePopsOldest ==
    [][/\ (command_queue' # command_queue) =>
              \/ /\ Len(command_queue') > Len(command_queue)
                 /\ SubSeq(command_queue', 1, Len(command_queue))
                       = command_queue
              \/ /\ command_queue # <<>>
                 /\ command_queue' = Tail(command_queue)
                 /\ last'.called
                 /\ IsResponseFrame(last'.frame)
       /\ (info' # info) =>
              /\ command_queue # <<>>
              /\ command_queue' = Tail(command_queue)
              /\ last'.called
              /\ IsResponseFrame(last'.frame)
              /\ \A f \in (DOMAIN info) \ FieldsOf(Head(command_queue)) :
                    info'[f] = info[f]
       /\ (/\ last'.called
           /\ last' # last
           /\ IsResponseFrame(last'.frame)
           /\ last'.stage = "packet"
           /\ command_queue # <<>>) =>
              command_queue' = Tail(command_queue)]_vars

\* The answer to CO_GET_FREQUENCY_INFO was processed after the answer to
\* CO_RD_VERSION, the other three codes of init_adapter are still pending
C13_Witness ==
    /\ last.called
    /\ prev.called
    /\ last.command_queue
          = <<CO_GET_FREQUENCY_INFO, CO_RD_IDBASE, CO_GET_NOISETHRESHOLD,
              CO_RD_REPEATER>>
    /\ command_queue = <<CO_RD_IDBASE, CO_GET_NOISETHRESHOLD, CO_RD_REPEATER>>
    /\ info.chip_id = CHIP_ID
    /\ info.frequency = "868.3Mhz"
    /\ last.info.frequency = Unset
    /\ info.base_id = None

\* The Response frame holds six data bytes, the return code 0 first, and no
\* optional bytes
IsLongIdBaseAnswer(frame) ==
    /\ IsResponseFrame(frame)
    /\ frame[2] = 0
    /\ frame[3] = 6
    /\ frame[4] = 0
    /\ frame[7] = 0

\* The Response frame holds five data bytes, the return code 0 first, and
\* one optional byte
IsIdBaseAnswer(frame) ==
    /\ IsResponseFrame(frame)
    /\ frame[2] = 0
    /\ frame[3] = 5
    /\ frame[4] = 1
    /\ frame[7] = 0

\* read() handed the frame to the response parser as the answer to
\* CO_RD_IDBASE
AnswersIdBase ==
    /\ last.called
    /\ last.routed = "response"
    /\ last.command_queue # <<>>
    /\ Head(last.command_queue) = CO_RD_IDBASE

\* (C14) After CO_RD_IDBASE was sent and a Response with the data
\* [0x00, b0, b1, b2, b3, rem] was processed as its answer, base_id is the
\* four bytes [b0, b1, b2, b3].
C14_BaseIdFromLongData ==
    (AnswersIdBase /\ IsLongIdBaseAnswer(last.frame)) =>
        info.base_id = SubSeq(last.frame, 8, 11)

\* (C14, amended) After CO_RD_IDBASE was sent and a Response with the data
\* [0x00, b0, b1, b2, b3] and the optional byte [rem] was processed as its
\* answer, base_id is the four bytes [b0, b1, b2, b3] and read() ends
\* without an exception.
C14_BaseIdFromData ==
    (AnswersIdBase /\ IsIdBaseAnswer(last.frame)) =>
        /\ info.base_id = SubSeq(last.frame, 8, 11)
        /\ last.raised = "none"

\* The base id getter has sent CO_RD_IDBASE and its answer was processed
C14_Witness ==
    /\ AnswersIdBase
    /\ IsIdBaseAnswer(last.frame)
    /\ call.op = "base_id"
    /\ last.info.base_id = None
    /\ info.base_id = BASE_ID

\* The worker thread has left run()
WorkerEnded == pc \in {"closed", "crashed"}

\* (C15) While the controller worker is running, a packet put on the
\* transmit queue is eventually taken off it, serialised and written to the
\* transport.
C15_SentIsWritten == (transmit # <<>>) ~> (transmit = <<>> \/ WorkerEnded)

\* The packets the worker took off the transmit queue so far
TakenCount == Len(hist.taken)

\* The frames of the packets the worker took and wrote, in the order taken
WrittenFrames ==
    LET ok == SelectSeq(hist.taken, LAMBDA t : t.written)
    IN  [k \in 1..Len(ok) |-> build(ok[k].packet)]

\* (C16) Packets are written to the transport in the order in which they
\* were put on the transmit queue, whoever put them: a step only adds
\* packets at the end of the order of the puts, and a frame that is written
\* is the frame of the oldest packet not yet taken.
C16_WrittenInPutOrder ==
    [][/\ Len(Sent') >= Len(Sent)
       /\ SubSeq(Sent', 1, Len(Sent)) = Sent
       /\ port.written' # port.written =>
             /\ TakenCount < Len(Sent)
             /\ port.written' =
                   Append(port.written, build(Sent[TakenCount + 1]))
             /\ TakenCount' = TakenCount + 1]_vars

\* A telegram of the gateway, a common command and a teach-in response of
\* the controller have all been taken off the queue and written
C16_Witness ==
    /\ \E i, j, k \in 1..TakenCount :
          /\ hist.taken[i].packet = GatewayPacket(1)
          /\ hist.taken[j].packet.packet_type = COMMON_COMMAND
          /\ hist.taken[k].packet.rorg = RORG_UTE
          /\ hist.taken[i].written
          /\ hist.taken[j].written
          /\ hist.taken[k].written
    /\ port.written = WrittenFrames
    /\ Len(port.written) >= 3

\* (C17) When stop() is called and no transport error occurs, every packet
\* that was on the transmit queue before the call has been written by the
\* time the worker has left its loop and closed the port.
C17_DrainedOnExit ==
    (pc = "closed" /\ hist.at_stop >= 0 /\ ~port.io_error) =>
        \A k \in 1..hist.at_stop :
            k <= TakenCount /\ hist.taken[k].written

\* (C18) After stop() is called, and with every transport read and write
\* returning, the worker leaves its loop and closes the transport: a worker
\* thread that has ended after stop() has closed the port.
C18_StoppedWorkerCloses ==
    (hist.at_stop >= 0 /\ ~port.io_error /\ WorkerEnded) => ~port.open

\* (C19) A transport I/O error leads to the worker terminating with the stop
\* flag set and the transport closed: a worker thread that has ended after
\* an I/O error has the stop flag set and has closed the port.
C19_IoErrorEndsClosed ==
    (port.io_error /\ WorkerEnded) => (stop_flag /\ ~port.open)

\* (C20) Every frame that passes both CRC checks is emitted to the receive
\* queue, whatever its packet type: a read() that has parsed a packet out of
\* a frame that starts with the sync byte and has both CRC8 right has put
\* one more packet on the receive queue.
C20_ValidFrameEmitted ==
    (/\ last.called
     /\ last.stage = "packet"
     /\ last.raised = "none"
     /\ last.frame[1] = SYNC) =>
        Len(receive) = Len(last.receive) + 1

\* A bit of a buffer, in the numbering of the EEP documentation: bit 0 is
\* the highest bit of the first byte
DocBit(data, k) == Bit(data[(k \div 8) + 1], 7 - (k % 8))

\* (C25) get_bits_from_bytearray reads back the value that
\* set_bits_in_bytearray wrote at the same position, for every field that
\* fits in the buffer, fields over three or more bytes included; the bits
\* outside the field are unchanged; a value above 2^num_bits - 1 is
\* rejected and the buffer is unchanged.
C25_BitsRoundTrip ==
    /\ call.op = "get_bits_from_bytearray" =>
          /\ call.read = call.value
          /\ \A k \in 0..(8 * Len(call.data) - 1) :
                (k < call.start_bit \/ k >= call.start_bit + call.num_bits)
                    => DocBit(call.out.data, k) = DocBit(call.data, k)
    /\ call.op = "set_bits_in_bytearray" =>
          /\ (call.value > 2 ^ call.num_bits - 1)
                <=> (call.out.raised = "ValueError")
          /\ call.out.raised # "none" => call.out.data = call.data

\* (C21) For every value field with a linear map from range to scale and
\* every raw value of its range, both ends included, set_value of the decoded
\* value writes the raw value back.
C21_EncodeDecodeRoundTrip ==
    call.op = "set_value" =>
        /\ call.out.raised = "none"
        /\ parse_raw(call.elt, call.out.data) = call.raw

\* The decoded value of a raw value as the EEP documentation defines it:
\* m * (raw - range_min) + scale_min with
\* m = (scale_max - scale_min) / (range_max - range_min), to 3 decimals
Scaled(elt, raw) ==
    Round3(RatAdd(RatMul(Rat(elt.scale_max - elt.scale_min,
                             elt.range_max - elt.range_min),
                         Number(raw - elt.range_min)),
                  Number(elt.scale_min)))

\* (C22) For every value field and every raw value of its range, both ends
\* included, the value the decoded field reports is
\* m * (raw - range_min) + scale_min rounded to 3 decimals.
C22_ReportedValueIsScaled ==
    call.op = "parse" =>
        /\ call.field.raw_value = call.raw
        /\ FieldValue(call.field) = Scaled(call.elt, call.raw)

\* An input of set_value matches an item: an integer that is the value of an
\* item or lies in a range item, a string that is the description of one
MatchesItem(elt, val) ==
    IF val.t = "num"
    THEN \/ \E k \in 1..Len(elt.items) : elt.items[k].value = val.n
         \/ \E k \in 1..Len(elt.range_items) :
               /\ elt.range_items[k].start <= val.n
               /\ val.n <= elt.range_items[k].end
    ELSE \/ \E k \in 1..Len(elt.items) : elt.items[k].description = val.s
         \/ \E k \in 1..Len(elt.range_items) :
               elt.range_items[k].description = val.s

\* (C23) set_value of an enum field fails with ValueError for every input
\* that matches no item, an integer or a string, and leaves the payload
\* unchanged.
C23_UnmatchedEnumFails ==
    (call.op = "set_value" /\ ~MatchesItem(call.elt, call.val)) =>
        /\ call.out.raised = "ValueError"
        /\ call.out.data = call.bitarray

\* (C24) get_telegram_form raises whenever the profile declares a command
\* enum and the caller passes no command, also for a command enum with a
\* single item.
C24_NoCommandFails ==
    (/\ call.op = "get_telegram_form"
     /\ call.profile.commands # PyNone
     /\ call.command = PyNone) => call.form.raised # "none"

\* (C26) Decoding never changes the catalogue: after any sequence of
\* get_values calls every field of every profile is as right after load.
C26_CatalogueUnchanged ==
    call.op = "get_values" => call.profile = call.loaded

\* The factor that the group of the caller is to apply to a payload: the raw
\* value of the operator or its inverse when there is exactly one operator
\* field, 1 otherwise
ExpectedFactor ==
    LET pd == call.loaded.datas[call.form.value.profile_data]
        operator == pd.items[pd.operator_fields[1]]
        raw == parse_raw(operator, call.user_payload)
    IN  IF Len(pd.operator_fields) # 1 THEN Number(1)
        ELSE IF operator.shortcut = "DIV" THEN Rat(1, raw)
        ELSE Number(raw)

\* A get_values call on a group with data that has returned its output
ValuesReturned ==
    /\ call.op = "get_values"
    /\ call.form.value.profile_data # 0
    /\ call.out.raised = "none"

\* (C28) With global_process true the factor applied to the value fields is
\* the raw value of the operator, or its inverse for a divisor, when the
\* group has exactly one operator field, and 1 in every other case.
C28_FactorOfOneOperator ==
    (/\ ValuesReturned
     /\ call.global_process
     /\ has_value(GroupData)) => call.out.factor = ExpectedFactor

\* The shortcuts of the fields of the output of the last call
OutputShortcuts ==
    {call.out.output[i].shortcut : i \in DOMAIN call.out.output}

\* (C29) When an availability flag of the group, TSN or HSN, is raw 0, the
\* output of get_values holds neither the paired metric, TMP or HUM, nor the
\* flag, also when the group goes through the global value processing.
C29_UnavailableSuppressed ==
    (ValuesReturned /\ call.global_process) =>
        \A i \in DOMAIN GroupData.availability_fields :
            LET flag == GroupData.items[GroupData.availability_fields[i]]
            IN  parse_raw(flag, call.user_payload) = 0 =>
                    /\ flag.shortcut \notin OutputShortcuts
                    /\ AVAILABILITY_FIELD_MAPPING[flag.shortcut]
                           \notin OutputShortcuts

\* The position of a shortcut in the XML definition of the group
XmlPosition(shortcut) ==
    CHOOSE k \in DOMAIN GroupData.items :
        GroupData.items[k].shortcut = shortcut

\* (C30) The output of get_values holds the fields in the order of the XML
\* definition of the group, also when the value fields go through the
\* operator and unit processing.
C30_OutputInXmlOrder ==
    ValuesReturned =>
        \A i, j \in DOMAIN call.out.output :
            i < j => XmlPosition(call.out.output[i].shortcut)
                         < XmlPosition(call.out.output[j].shortcut)

\* The request type of a UTE frame: DB6 bits 5 and 4
FrameRequestType(frame) == (frame[8] \div 16) % 4

\* The control byte of an accepted registration: bidirectional, response
\* TEACHIN_ACCEPTED, command identifier 1
ACCEPTED_REGISTRATION == 145

\* (C27) A UTE request of type Deletion is never answered with the response
\* code of an accepted registration, control byte 0x91.
C27_DeletionNotAccepted ==
    (/\ last.called
     /\ IsUteFrame(last.frame)
     /\ FrameRequestType(last.frame) = DELETE) =>
        ~(/\ Len(transmit) = Len(last.transmit) + 1
          /\ transmit[Len(transmit)].data[2] = ACCEPTED_REGISTRATION)

\* The payload of a parsed radio packet: data without RORG, sender and status
PayloadOf(packet) == PySlice(packet.data, 1, Len(packet.data) - 5)

\* (C31) The learn flag of a parsed radio packet is fixed by RORG and
\* payload: not bit 3 of payload[0] for BS1, not bit 3 of payload[3] for
\* BS4, false for RPS and VLD whatever the payload.
C31_LearnByRorg ==
    (/\ call.op = "parse_msg"
     /\ call.out.raised = "none"
     /\ call.out.result = "OK") =>
        LET packet == call.out.packet
        IN  packet.learn =
                CASE packet.rorg = RORG_BS1 -> Bit(PayloadOf(packet)[1], 3) = 0
                  [] packet.rorg = RORG_BS4 -> Bit(PayloadOf(packet)[4], 3) = 0
                  [] OTHER -> FALSE

\* (C38) A UTE teach-in request read with teach_in true while chip_id is
\* still unknown is handled without an error: read() raises nothing and puts
\* no response on the transmit queue.
C38_UteBeforeIdentityHandled ==
    (/\ last.called
     /\ IsUteFrame(last.frame)
     /\ last.stage = "packet"
     /\ last.teach_in
     /\ last.info.chip_id = None) =>
        /\ last.raised = "none"
        /\ transmit = last.transmit

\* (C40) read() signals FrameIncomplete only when it left the buffer
\* unchanged: a frame that was removed from the buffer is emitted as a
\* packet or counted as a CRC error, never reported as incomplete.
C40_IncompleteLeavesBuffer ==
    (last.called /\ last.raised = "FrameIncompleteError") =>
        buffer = last.buffer

\* (C32) command_queue is read and written only by the controller worker
\* thread: every step that changes command_queue is a step of the worker, the
\* read() call of parse(); no step of another thread appends to it or pops
\* from it.
C32_OnlyWorkerTouchesQueue ==
    [][command_queue' # command_queue => Parse]_vars

\* (C37) For every interleaving of a thread calling send_common_command with
\* the worker, the command code is already in command_queue when read()
\* handles the Response to that command: the Response is not dropped.
C37_CodeQueuedBeforeResponse ==
    (last.called /\ last.stage = "packet" /\ last.frame = IDBASE_RESPONSE) =>
        /\ last.command_queue # <<>>
        /\ Head(last.command_queue) = CO_RD_IDBASE

\* (C36) A Response that the adapter sends for a transmitted radio telegram is
\* never consumed as the answer of a pending common command: read() leaves
\* command_queue and the adapter identity fields as they were.
C36_TelegramResponseNotConsumed ==
    [][(Parse /\ last'.stage = "packet" /\ last'.frame = RESPONSE_FRAME) =>
            /\ command_queue' = command_queue
            /\ info' = info]_vars

\* The thread of _publish_gateway_adapter_details is in a wait loop of
\* controller_info_details
Waiting == call.op = "controller_info_details" /\ call.at \in {"wait_chip_id", "wait_frequency"}

\* No byte is on its way and nothing is left to do for the worker: the
\* transmit queue, the port and the buffer are empty, or the worker has ended
Settled ==
    /\ Answered
    /\ \/ pc = "crashed"
       \/ transmit = <<>> /\ wire = <<>> /\ buffer = <<>>

\* (C33) The adapter details are published only after the worker has written
\* the adapter identity: what is published holds the chip id of the Response
\* to CO_RD_VERSION and the frequency of the Response to
\* CO_GET_FREQUENCY_INFO; and with an adapter that answers every command and
\* a transport without failure, the thread is never left waiting for them
\* once every answer has been handled.
C33_DetailsAfterIdentity ==
    ~port.io_error =>
        /\ call.op = "published" =>
              /\ call.id = CHIP_ID
              /\ call.frequency = RESPONSE_FREQUENCY_FREQUENCY[1]
        /\ ~(Waiting /\ Settled)

\* The profile of an equipment declares commands
DeclaresCommands(equipment) == equipment.profile.commands # PyNone

\* (C34) A command selector is required only when the profile of the
\* equipment declares commands: a non-empty request for an equipment whose
\* profile declares none is encoded, and puts exactly one packet on the
\* transmit queue.
C34_NoSelectorWithoutCommands ==
    (/\ call.op = "handled" /\ call.payload # <<>>
     /\ ~DeclaresCommands(call.equipment)
     /\ \A k \in DOMAIN call.payload :
           ItemGet(call.equipment.profile.datas[1].items, call.payload[k].key) # 0) =>
        /\ call.raised = "none"
        /\ Len(transmit) = 1

\* The learn bit of a 1BS or 4BS telegram: bit 3 of the last payload byte
LearnBitOf(packet) == BitAnd(ShiftRight(packet.data[Len(packet.data) - 5], 3), 1)

C39_GatewayExitsAfterWorker ==
    (~is_alive /\ call.at = "get" /\ receive = <<>>)
        ~> (call.at = "disconnected" /\ call.status = "OFFLINE")

=============================================================================
